---- MODULE Spec2Model ----
(***************************************************************************)
(* A model of two parts of the repository:                                 *)
(*                                                                         *)
(*  - RendezVous (eden/mononoke/common/rendezvous/src/rendez_vous.rs):     *)
(*    the batching coalescer.  Specification RdvSpec.                      *)
(*  - FileStore::fetch and FetchState                                      *)
(*    (eden/scm/lib/revisionstore/src/scmstore/file.rs): the tiered fetch  *)
(*    state machine.  Specification Spec.                                  *)
(***************************************************************************)
EXTENDS Integers, Sequences, FiniteSets, TLC

(***************************************************************************)
(* Bounds of the model.                                                    *)
(***************************************************************************)
\* Number of RendezVous::dispatch calls in one behaviour.
MaxCallers == 2

\* Keys the callers of RendezVous may ask for.
RKeys == {"k1", "k2", "k3"}

\* The key sets the callers may ask for: one below the threshold alone and
\* with itself, two that overlap in one key and reach the threshold when
\* merged, and one that reaches the threshold alone.
Requests == {{"k1"}, {"k1", "k2"}, {"k2", "k3"}, {"k1", "k2", "k3"}}

\* The sets of keys the backend may hold values for when it answers: none,
\* some (so that a request finds one key, misses another and is handed one it
\* did not ask for), all.
BackendHolds == {{}, {"k1", "k3"}, {"k1", "k2", "k3"}}

\* Number of backend failures (Err results, entries that fail to parse) in one
\* fetch.
MaxFaults == 2

\* The keys of the file store.
Keys == {"k1", "k2"}

\* The key sets a fetch is called with: none (FileStore::get of a StoreKey that
\* is not a Key), "k1" alone, both.
KeySets == {{}, {"k1"}, {"k1", "k2"}}

VARIABLES
    staging,    \* RendezVousInner.staging: the slot (keys, shared future, notify)
    epochs,     \* the shared futures created so far, one per installed slot
    callers,    \* the futures returned by dispatch, one per call
    stats,      \* RendezVousStats
    store,      \* FileStore: which backends are configured, and the policy flags
    request,    \* the keys and the attributes FileStore::fetch was called with
    pc,         \* the position of FileStore::fetch
    state,      \* FetchState
    faults,     \* the number of backend failures so far
    probes,     \* the backend calls made so far, with the keys passed
    written,    \* what the fetch has written to the writeable backends
    fetched,    \* FileStoreFetch, the value fetch returns
    result,     \* what a call on the FileStoreFetch, FileStore::flush or write_batch returned
    batch,      \* the entries handed to write_batch (or the delta handed to add)
    disk,       \* what write_batch has put into the local indexed log and the ContentStore
    lookup      \* a get_tree_batch or get_blob_batch call: its keys and the resolve calls made

rdvVars == <<staging, epochs, callers, stats>>

fetchVars == <<store, request, pc, state, faults, probes, written, fetched, result>>

callVars == <<batch, disk, lookup>>

vars == <<staging, epochs, callers, stats, store, request, pc, state, faults, probes, written, fetched, result, batch, disk, lookup>>

(***************************************************************************)
(* RendezVous                                                              *)
(***************************************************************************)
Callers == 1..MaxCallers

\* A slot is installed at most once per dispatch call.
Epochs == 1..MaxCallers

\* The value the backend holds for a key.
ValOf(k) == <<"val", k>>

EmptyMap == [k \in {} |-> ValOf(k)]

\* Option<V>: None is the empty set, Some(v) is {v}.
None == {}

Some(v) == {v}

\* RendezVousController::early_dispatch_threshold
early_dispatch_threshold == 3

\* Result<HashMap<K, V>, Error> of the backend call f1(keys).
NoRet == [st |-> "none", map |-> EmptyMap]

ErrRet == [st |-> "err", map |-> EmptyMap]

OkRet(m) == [st |-> "ok", map |-> m]

\* Every map a backend call may answer with: the values of any set of keys,
\* asked for or not.
BackendMaps == {[k \in S |-> ValOf(k)] : S \in BackendHolds}

BackendRets == {ErrRet} \cup {OkRet(m) : m \in BackendMaps}

\* staging == None
NoStaging == [e |-> 0, keys |-> {}, permit |-> FALSE]

\* A shared future: where it is, whether wait_for_dispatch has returned, whether
\* its Notify holds a permit, and the history of what it did: the counter it
\* added to, the epoch whose slot it took, the backend calls it made.
NoEpoch == [pc |-> "unused", timer |-> FALSE, notified |-> FALSE, early |-> FALSE, took |-> 0, calls |-> <<>>, ret |-> NoRet]

NoCaller == [st |-> "idle", keys |-> {}, should_batch |-> FALSE, e |-> 0, calls |-> <<>>, ret |-> NoRet, out |-> NoRet]

NoStats == [dispatch_no_batch |-> 0, dispatch_batch_scheduled |-> 0, dispatch_batch_early |-> 0, keys_deduplicated |-> 0, keys_dispatched |-> 0, inflight |-> 0]

\* The condition of RendezVous::dispatch for taking the batched path.
ShouldBatchMutLe(should_batch, keys) == should_batch /\ Cardinality(keys) <= early_dispatch_threshold

ShouldBatch(should_batch, keys) == should_batch /\ Cardinality(keys) < early_dispatch_threshold

\* staged_keys.insert(k) for every key of the request.
MergeKeysMutReplace(staged_keys, keys) == keys

MergeKeysMutKeepStaged(staged_keys, keys) == staged_keys

MergeKeys(staged_keys, keys) == staged_keys \cup keys

\* The number of inserts that found the key already staged.
Deduplicated(staged_keys, keys) == Cardinality(keys \cap staged_keys)

\* keys.into_iter().map(|k| (k, ret.get(&k).cloned())).collect()
ProjectMutAll(keys, map) == [k \in DOMAIN map |-> Some(map[k])]

Project(keys, map) == [k \in keys |-> IF k \in DOMAIN map THEN Some(map[k]) ELSE None]

\* What the future returned by dispatch_batched makes of the shared result:
\* `fut.await?` hands the shared error on, otherwise the map is projected.
CallerOutcome(keys, ret) == IF ret.st = "err" THEN ErrRet ELSE OkRet(Project(keys, ret.map))

\* The callers that joined epoch e: each holds a clone of its shared future
\* until it completes or is dropped.
Participants(e) == {c \in Callers : callers[c].e = e}

LiveParticipants(e) == {c \in Participants(e) : callers[c].st = "waiting"}

\* What a participant reads out of its clone of the shared future: the
\* result is cloned for every participant, the error as well (SharedError).
SharedOutputMutTaken(c) == IF \E d \in Participants(callers[c].e) : callers[d].st = "done" THEN OkRet(EmptyMap) ELSE epochs[callers[c].e].ret

SharedOutput(c) == epochs[callers[c].e].ret

\* Whether the merged key set makes the joining request notify the future.
ReachedThresholdMutGt(merged) == Cardinality(merged) > early_dispatch_threshold

ReachedThreshold(merged) == Cardinality(merged) >= early_dispatch_threshold

\* The first epoch whose slot has not been installed yet.
FreshEpoch == CHOOSE e \in Epochs : epochs[e].pc = "unused" /\ \A f \in Epochs : f < e => epochs[f].pc # "unused"

\* dispatch calls are numbered in the order in which they are made.
NextCaller(c) == callers[c].st = "idle" /\ \A d \in Callers : d < c => callers[d].st # "idle"

\* dispatch_batched, the synchronous part that runs under the staging lock,
\* when the slot is empty: build the shared future and install the slot.
DispatchBatchedInstall(c, keys) ==
    /\ staging.e = 0
    /\ LET e == FreshEpoch IN
        /\ staging' = [e |-> e, keys |-> keys, permit |-> FALSE]
        /\ epochs' = [epochs EXCEPT ![e] = [NoEpoch EXCEPT !.pc = "select"]]
        /\ callers' = [callers EXCEPT ![c] = [NoCaller EXCEPT !.st = "waiting", !.keys = keys, !.should_batch = TRUE, !.e = e]]
    /\ UNCHANGED <<stats, fetchVars, callVars>>

\* dispatch_batched installing a new slot over an occupied one
DispatchBatchedJoinMutInstall(c, keys) ==
    /\ staging.e # 0
    /\ LET e == FreshEpoch IN
        /\ staging' = [e |-> e, keys |-> keys, permit |-> FALSE]
        /\ epochs' = [epochs EXCEPT ![e] = [NoEpoch EXCEPT !.pc = "select"]]
        /\ callers' = [callers EXCEPT ![c] = [NoCaller EXCEPT !.st = "waiting", !.keys = keys, !.should_batch = TRUE, !.e = e]]
    /\ UNCHANGED <<stats, fetchVars, callVars>>

\* dispatch_batched when the slot is occupied: merge the keys, count the
\* duplicates, notify when the threshold is reached, clone the shared future.
DispatchBatchedJoin(c, keys) ==
    /\ staging.e # 0
    /\ LET merged == MergeKeys(staging.keys, keys) IN
        /\ staging' = [staging EXCEPT !.keys = merged, !.permit = staging.permit \/ ReachedThreshold(merged)]
        /\ callers' = [callers EXCEPT ![c] = [NoCaller EXCEPT !.st = "waiting", !.keys = keys, !.should_batch = TRUE, !.e = staging.e]]
        /\ epochs' = [epochs EXCEPT ![staging.e].notified = @ \/ ReachedThreshold(merged)]
        /\ stats' = [stats EXCEPT !.keys_deduplicated = @ + Deduplicated(staging.keys, keys)]
    /\ UNCHANGED <<fetchVars, callVars>>

DispatchBatched(c, keys) == DispatchBatchedInstall(c, keys) \/ DispatchBatchedJoin(c, keys)

\* dispatch_not_batched: only builds the future; nothing runs until it is polled.
DispatchNotBatched(c, keys, should_batch) ==
    /\ callers' = [callers EXCEPT ![c] = [NoCaller EXCEPT !.st = "nb_created", !.keys = keys, !.should_batch = should_batch]]
    /\ UNCHANGED <<staging, epochs, stats, fetchVars, callVars>>

\* RendezVous::dispatch
Dispatch(c) ==
    /\ NextCaller(c)
    /\ \E keys \in Requests, should_batch \in BOOLEAN :
        IF ShouldBatch(should_batch, keys) THEN DispatchBatched(c, keys) ELSE DispatchNotBatched(c, keys, should_batch)

\* controller.wait_for_dispatch() returns while the epoch's future is in select!.
TimerFire(e) ==
    /\ epochs[e].pc = "select"
    /\ ~epochs[e].timer
    /\ epochs' = [epochs EXCEPT ![e].timer = TRUE]
    /\ UNCHANGED <<staging, callers, stats, fetchVars, callVars>>

\* dispatch_with_stats up to the call f1(keys).
CallBackend(keys) == [stats EXCEPT !.keys_dispatched = @ + Cardinality(keys), !.inflight = @ + 1]

\* The keys of all the callers that joined epoch e.
EpochKeys(e) == UNION {callers[c].keys : c \in Participants(e)}

EpochDispatchMutUnshared(e, is_early) ==
    /\ epochs[e].pc \in {"select", "backend"}
    /\ Len(epochs[e].calls) < Cardinality(Participants(e))
    /\ LiveParticipants(e) # {}
    /\ staging' = IF staging.e = e THEN NoStaging ELSE staging
    /\ epochs' = [epochs EXCEPT ![e] = [@ EXCEPT !.pc = "backend", !.early = is_early, !.calls = Append(@, EpochKeys(e))]]
    /\ stats' = CallBackend(EpochKeys(e))
    /\ UNCHANGED <<callers, fetchVars, callVars>>

\* The counter the future adds to after select!.
CountDispatch(is_early) == [stats EXCEPT !.dispatch_batch_early = @ + (IF is_early THEN 1 ELSE 0), !.dispatch_batch_scheduled = @ + (IF is_early THEN 0 ELSE 1)]

EpochDispatchMutKeepSlot(e, is_early) ==
    /\ epochs[e].pc = "select"
    /\ LiveParticipants(e) # {}
    /\ IF is_early THEN epochs[e].notified ELSE epochs[e].timer
    /\ staging.e # 0
    /\ staging' = staging
    /\ epochs' = [epochs EXCEPT ![e] = [@ EXCEPT !.pc = "backend", !.early = is_early, !.took = staging.e, !.calls = Append(@, staging.keys)]]
    /\ stats' = [CountDispatch(is_early) EXCEPT !.keys_dispatched = @ + Cardinality(staging.keys), !.inflight = @ + 1]
    /\ UNCHANGED <<callers, fetchVars, callVars>>

\* The future leaving select! only when notified
EpochDispatchMutOnlyEarly(e, is_early) ==
    /\ epochs[e].pc = "select"
    /\ LiveParticipants(e) # {}
    /\ is_early /\ epochs[e].notified
    /\ staging.e # 0
    /\ staging' = NoStaging
    /\ epochs' = [epochs EXCEPT ![e] = [@ EXCEPT !.pc = "backend", !.early = is_early, !.took = staging.e, !.calls = Append(@, staging.keys)]]
    /\ stats' = [CountDispatch(is_early) EXCEPT !.keys_dispatched = @ + Cardinality(staging.keys), !.inflight = @ + 1]
    /\ UNCHANGED <<callers, fetchVars, callVars>>

\* The epoch's future, polled by one of its participants, leaves select! (its
\* wait_for_dispatch has returned, or its Notify holds a permit), takes
\* whatever the slot holds and calls the backend with the keys found there;
\* take().expect(..) panics on an empty slot.
EpochDispatch(e, is_early) ==
    /\ epochs[e].pc = "select"
    /\ LiveParticipants(e) # {}
    /\ IF is_early THEN epochs[e].notified ELSE epochs[e].timer
    /\ IF staging.e = 0
       THEN /\ staging' = staging
            /\ epochs' = [epochs EXCEPT ![e] = [@ EXCEPT !.pc = "panic", !.early = is_early]]
            /\ stats' = CountDispatch(is_early)
       ELSE /\ staging' = NoStaging
            /\ epochs' = [epochs EXCEPT ![e] = [@ EXCEPT !.pc = "backend", !.early = is_early, !.took = staging.e, !.calls = Append(@, staging.keys)]]
            /\ stats' = [CountDispatch(is_early) EXCEPT !.keys_dispatched = @ + Cardinality(staging.keys), !.inflight = @ + 1]
    /\ UNCHANGED <<callers, fetchVars, callVars>>

\* The backend call of a batched epoch completes; the shared future is done.
EpochComplete(e) ==
    /\ epochs[e].pc = "backend"
    /\ LiveParticipants(e) # {}
    /\ \E ret \in BackendRets :
        epochs' = [epochs EXCEPT ![e] = [@ EXCEPT !.pc = "done", !.ret = ret]]
    /\ stats' = [stats EXCEPT !.inflight = @ - 1]
    /\ UNCHANGED <<staging, callers, fetchVars, callVars>>

\* The future returned by dispatch_batched completes.
CallerComplete(c) ==
    /\ callers[c].st = "waiting"
    /\ epochs[callers[c].e].pc = "done"
    /\ callers' = [callers EXCEPT ![c] = [@ EXCEPT !.st = "done", !.out = CallerOutcome(callers[c].keys, SharedOutput(c))]]
    /\ UNCHANGED <<staging, epochs, stats, fetchVars, callVars>>

\* The future returned by dispatch_not_batched is polled for the first time.
NotBatchedCall(c) ==
    /\ callers[c].st = "nb_created"
    /\ callers' = [callers EXCEPT ![c] = [@ EXCEPT !.st = "nb_backend", !.calls = Append(@, callers[c].keys)]]
    /\ stats' = [CallBackend(callers[c].keys) EXCEPT !.dispatch_no_batch = @ + 1]
    /\ UNCHANGED <<staging, epochs, fetchVars, callVars>>

\* The backend call of a non-batched dispatch completes.
NotBatchedComplete(c) ==
    /\ callers[c].st = "nb_backend"
    /\ \E ret \in BackendRets :
        callers' = [callers EXCEPT ![c] = [@ EXCEPT !.st = "done", !.ret = ret, !.out = CallerOutcome(callers[c].keys, ret)]]
    /\ stats' = [stats EXCEPT !.inflight = @ - 1]
    /\ UNCHANGED <<staging, epochs, fetchVars, callVars>>

\* Whether dropping caller c's future drops the last reference to the shared
\* future of its epoch: no other participant holds a clone and the slot,
\* which holds one until it is taken, has been taken.
DropCancelsMutAlways(c) == callers[c].st = "waiting" /\ epochs[callers[c].e].pc \in {"select", "backend"}

DropCancels(c) ==
    /\ callers[c].st = "waiting"
    /\ epochs[callers[c].e].pc = "backend"
    /\ LiveParticipants(callers[c].e) = {c}

\* The caller drops the future dispatch returned before it completed.
Drop(c) ==
    /\ callers[c].st \in {"waiting", "nb_created", "nb_backend"}
    /\ callers' = [callers EXCEPT ![c].st = "dropped"]
    /\ epochs' = IF DropCancels(c) THEN [epochs EXCEPT ![callers[c].e].pc = "cancelled"] ELSE epochs
    /\ UNCHANGED <<staging, stats, fetchVars, callVars>>

(***************************************************************************)
(* FileStore and FetchState                                                *)
(***************************************************************************)
\* FileAttributes::NONE, CONTENT, AUX
NONE == [content |-> FALSE, aux_data |-> FALSE]

CONTENT == [content |-> TRUE, aux_data |-> FALSE]

AUX == [content |-> FALSE, aux_data |-> TRUE]

\* impl Not, BitAnd, BitOr, Sub for FileAttributes
Not(a) == [content |-> ~a.content, aux_data |-> ~a.aux_data]

BitAnd(a, b) == [content |-> a.content /\ b.content, aux_data |-> a.aux_data /\ b.aux_data]

BitOr(a, b) == [content |-> a.content \/ b.content, aux_data |-> a.aux_data \/ b.aux_data]

Sub(a, b) == BitAnd(a, Not(b))

\* FileAttributes::none, any, has, with_computable
none(a) == a = NONE

any(a) == a # NONE

has(self, attrs) == none(Sub(attrs, self))

with_computable(a) == IF a.content THEN BitOr(a, AUX) ELSE a

\* The attribute masks a fetch may ask for.
AttrSets == {NONE, CONTENT, AUX, BitOr(CONTENT, AUX)}

\* ContentHash::sha256 of a file content.
Sha256(text) == <<"sha256", text>>

\* The content hashes of the large files.
Shas == {Sha256("big"), Sha256("huge")}

\* The large file with content hash sha.
LfsBlob(sha) == sha[2]

\* The content hashes a pointer stored for a key may carry: the two keys may
\* share their large file.
PtrShas(k) == IF k = "k1" THEN {Sha256("big")} ELSE Shas

\* An hg file blob: the file content, behind a copy header or not.
HgBlob(copy, text) == [copy |-> copy, text |-> text]

\* The hg file blob of a key (the hgid of a key is the hash of its blob).
HgBlobOf(k) == IF k = "k1" THEN HgBlob(TRUE, "hello") ELSE HgBlob(FALSE, "world")

\* datastore::strip_metadata: the blob without its copy header.
strip_metadata(blob) == blob.text

NoSha == <<>>

NoBlob == HgBlob(FALSE, "")

\* Option<LazyFile>::None and the variants of LazyFile.
NoFile == [kind |-> "None", data |-> NoBlob, sha |-> NoSha]

LazyFile(kind, data) == [kind |-> kind, data |-> data, sha |-> NoSha]

LazyLfs(sha) == [kind |-> "Lfs", data |-> HgBlob(FALSE, LfsBlob(sha)), sha |-> sha]

\* LazyFile::Lfs(blob, pointer) for an entry of a large-file store: data.text
\* is the blob, data.copy says whether the pointer records a copy source.
LazyLfsOf(entry) == [kind |-> "Lfs", data |-> HgBlob(entry.copy, LfsBlob(entry.sha)), sha |-> entry.sha]

\* Option<FileAuxData>::None
NoAux == <<>>

\* StoreFile, its Default, From<LazyFile> and From<FileAuxData>
StoreFile(content, aux_data) == [content |-> content, aux_data |-> aux_data]

DefaultStoreFile == StoreFile(NoFile, NoAux)

\* StoreFile::attrs
attrs(sf) == [content |-> sf.content # NoFile, aux_data |-> sf.aux_data # NoAux]

\* StoreFile::mask
mask(sf, a) == StoreFile(IF a.content THEN sf.content ELSE NoFile, IF a.aux_data THEN sf.aux_data ELSE NoAux)

\* impl BitOr for StoreFile: Option::or, the left operand first.
StoreFileOr(lhs, rhs) == StoreFile(IF lhs.content # NoFile THEN lhs.content ELSE rhs.content, IF lhs.aux_data # NoAux THEN lhs.aux_data ELSE rhs.aux_data)

\* LazyFile::file_content
file_content(lf) == IF lf.kind = "Lfs" THEN lf.data.text ELSE strip_metadata(lf.data)

\* lfs_from_hg_file_blob: the pointer and the blob of a Mercurial file blob.
\* The blob is the content without the copy header, the pointer holds its
\* sha256 and the copy source.
lfs_from_hg_file_blob(bytes) == [pointer |-> [sha |-> Sha256(strip_metadata(bytes)), copy_from |-> bytes.copy], blob |-> strip_metadata(bytes)]

\* rebuild_metadata: the Mercurial file blob of a large-file blob, with the
\* copy header put back when the pointer records a copy source.
rebuild_metadata(blob, copy_from) == HgBlob(copy_from, blob)

hg_contentMutStripped(lf) == HgBlob(FALSE, lf.data.text)

\* LazyFile::hg_content: the content as encoded in the Mercurial blob (with
\* copy header).
hg_content(lf) == IF lf.kind = "Lfs" THEN rebuild_metadata(lf.data.text, lf.data.copy) ELSE lf.data

\* LazyFile::aux_data: the pointer's hash for a large file, else the hash of
\* the file content.
lazy_aux_data(lf) == IF lf.kind = "Lfs" THEN lf.sha ELSE Sha256(file_content(lf))

\* A blob that fails its validation: reading it returns Err.
Corrupt == HgBlob(FALSE, "corrupt")

\* LazyFile::file_content and EdenApi's FileEntry::data fail for such a blob.
file_content_ok(lf) == lf.data # Corrupt

\* LazyFile::indexedlog_cache_entry: the entry to cache, or nothing (the empty
\* set) for the variants that are not cached by this path and for an Err.
indexedlog_cache_entry(lf, key) ==
    IF lf.kind \in {"IndexedLog", "Memcache"} \/ (lf.kind = "EdenApi" /\ file_content_ok(lf))
    THEN {[key |-> key, data |-> lf.data]}
    ELSE {}

\* HashMap helpers: insert, remove, get-or-default.
EmptyFn == [x \in {} |-> 0]

MapPut(m, k, v) == [x \in DOMAIN m \cup {k} |-> IF x = k THEN v ELSE m[x]]

MapDel(m, k) == [x \in DOMAIN m \ {k} |-> m[x]]

\* The orders in which a HashSet or HashMap may be iterated.
Orders(S) == {o \in [1..Cardinality(S) -> S] : \A i, j \in 1..Cardinality(S) : o[i] = o[j] => i = j}

\* FetchState::new; keyed_log is a history of the calls of keyed_error.
FetchStateNew(keys, a) == [pending |-> keys, request_attrs |-> a, found |-> EmptyFn, lfs_pointers |-> EmptyFn, pointer_origin |-> EmptyFn, key_origin |-> EmptyFn, fetch_errors |-> EmptyFn, other_errors |-> <<>>, found_in_memcache |-> {}, found_in_edenapi |-> {}, computed_aux_data |-> EmptyFn, keyed_log |-> <<>>, cache_origins |-> {}]

\* keyed_error overwriting the errors already recorded for the key
keyed_errorMutReplace(s, key, err) == [s EXCEPT !.fetch_errors = MapPut(@, key, <<err>>), !.keyed_log = Append(@, <<key, err>>)]

\* FetchErrors::keyed_error
keyed_error(s, key, err) == [s EXCEPT !.fetch_errors = MapPut(@, key, (IF key \in DOMAIN @ THEN @[key] ELSE <<>>) \o <<err>>), !.keyed_log = Append(@, <<key, err>>)]

\* FetchErrors::other_error
other_error(s, err) == [s EXCEPT !.other_errors = Append(@, err)]

\* FetchState::pending
pending_key(s, key, fetchable) ==
    IF none(fetchable) THEN FALSE
    ELSE LET available == IF key \in DOMAIN s.found THEN attrs(s.found[key]) ELSE NONE
             missing == Sub(s.request_attrs, with_computable(available))
             actionable == BitAnd(missing, with_computable(fetchable))
         IN any(actionable)

\* FetchState::pending_all
pending_all(s, fetchable) == IF none(fetchable) THEN {} ELSE {k \in s.pending : pending_key(s, k, fetchable)}

\* FetchState::pending_nonlfs
pending_nonlfs(s, fetchable) == IF none(fetchable) THEN {} ELSE {k \in s.pending : k \notin DOMAIN s.lfs_pointers /\ pending_key(s, k, fetchable)}

\* FetchState::pending_storekey (the keys; storekey gives their StoreKey)
pending_storekey(s, fetchable) == IF none(fetchable) THEN {} ELSE {k \in s.pending : pending_key(s, k, fetchable)}

\* FetchState::storekey
storekey(s, key) == IF key \in DOMAIN s.lfs_pointers THEN [t |-> "Content", sha |-> s.lfs_pointers[key], key |-> key] ELSE [t |-> "HgId", sha |-> NoSha, key |-> key]

\* FetchState::mark_complete
mark_complete(s, key) ==
    IF key \in DOMAIN s.lfs_pointers
    THEN [s EXCEPT !.pending = @ \ {key}, !.lfs_pointers = MapDel(@, key), !.pointer_origin = MapDel(@, s.lfs_pointers[key])]
    ELSE [s EXCEPT !.pending = @ \ {key}]

\* FetchState::found_pointer
found_pointerMutOverwrite(s, key, sha, typ) ==
    [s EXCEPT !.pointer_origin = MapPut(@, sha, typ),
              !.lfs_pointers = MapPut(@, key, sha),
              !.cache_origins = IF typ = "Cache" THEN @ \cup {sha} ELSE @]

\* FetchState::found_pointer; cache_origins is the history of the hashes whose
\* recorded origin has been Cache during this fetch.
found_pointer(s, key, sha, typ) ==
    [s EXCEPT !.pointer_origin = IF typ = "Cache" \/ sha \notin DOMAIN @ THEN MapPut(@, sha, typ) ELSE @,
              !.lfs_pointers = MapPut(@, key, sha),
              !.cache_origins = IF typ = "Cache" THEN @ \cup {sha} ELSE @]

\* found_attributes without the insert into key_origin
found_attributesMutNoOrigin(s, key, sf, typ) ==
    LET available == IF key \in DOMAIN s.found THEN StoreFileOr(sf, s.found[key]) ELSE sf
        s1 == [s EXCEPT !.found = MapPut(@, key, available)]
    IN IF has(attrs(available), s.request_attrs) THEN mark_complete(s1, key) ELSE s1

found_attributesMutNoComplete(s, key, sf, typ) ==
    LET available == IF key \in DOMAIN s.found THEN StoreFileOr(sf, s.found[key]) ELSE sf
    IN [s EXCEPT !.key_origin = MapPut(@, key, IF typ = "None" THEN "Cache" ELSE typ), !.found = MapPut(@, key, available)]

\* FetchState::found_attributes; typ is "Local", "Cache" or "None".
found_attributes(s, key, sf, typ) ==
    LET available == IF key \in DOMAIN s.found THEN StoreFileOr(sf, s.found[key]) ELSE sf
        s1 == [s EXCEPT !.key_origin = MapPut(@, key, IF typ = "None" THEN "Cache" ELSE typ), !.found = MapPut(@, key, available)]
    IN IF has(attrs(available), s.request_attrs) THEN mark_complete(s1, key) ELSE s1

\* An anyhow::Error, named by the tier and the call that produced it.
Err(tier, what) == <<tier, what>>

\* One backend invocation: the tier, the keys it was asked for, the keys of the
\* entries it returned, and whether the probe failed at batch granularity.
Probe(tier, keys, returned, failed) == [tier |-> tier, keys |-> keys, returned |-> returned, failed |-> failed]

\* What a backend may answer for one key: nothing, the key's data, an entry
\* flagged is_lfs holding a pointer (well-formed or not), or an error.
Resp(t) == [t |-> t, sha |-> NoSha]

PtrResp(sha) == [t |-> "ptr", sha |-> sha]

\* The number of keys for which a backend's answer is one of bad.
NFaults(resp, bad) == Cardinality({k \in DOMAIN resp : resp[k].t \in bad})

\* The FileAuxData stored for a key: the hash of its file content.
AuxOf(k) == Sha256(strip_metadata(HgBlobOf(k)))

\* IndexedLogHgIdDataStore::get_raw_entry on an aux store: Ok(None), an entry
\* holding the aux data, an entry that is not the JSON of a FileAuxData, Err.
AuxResps == {Resp("none"), Resp("aux"), Resp("malformed"), Resp("err")}

\* FetchState::found_aux_indexedlog on a well-formed entry
found_aux_indexedlog(s, key) == found_attributes(s, key, StoreFile(NoFile, AuxOf(key)), "None")

\* The loop of fetch_aux_indexedlog_inner over the pending keys in the order
\* the vector holds them; a malformed entry returns Err out of the loop.
RECURSIVE fetch_aux_indexedlog_inner(_, _, _, _)
fetch_aux_indexedlog_inner(s, order, resp, tier) ==
    IF order = <<>> THEN [s |-> s, ok |-> TRUE]
    ELSE LET key == Head(order)
             r == resp[key]
         IN CASE r.t = "aux" -> fetch_aux_indexedlog_inner(found_aux_indexedlog(s, key), Tail(order), resp, tier)
              [] r.t = "malformed" -> [s |-> s, ok |-> FALSE]
              [] r.t = "err" -> fetch_aux_indexedlog_inner(keyed_error(s, key, Err(tier, "get_raw_entry")), Tail(order), resp, tier)
              [] OTHER -> fetch_aux_indexedlog_inner(s, Tail(order), resp, tier)

\* FetchState::fetch_aux_indexedlog
fetch_aux_indexedlog(s, order, resp, tier) ==
    LET r == fetch_aux_indexedlog_inner(s, order, resp, tier)
    IN IF r.ok THEN r.s ELSE other_error(r.s, Err(tier, "from_slice"))

\* get_raw_entry on an indexed log of file data.
DataResp(blob) == [t |-> "data", sha |-> NoSha, data |-> blob]

IndexedLogResps(k) == {Resp("none"), DataResp(HgBlobOf(k)), Resp("badptr"), Resp("err")} \cup {PtrResp(sha) : sha \in PtrShas(k)}

\* The answers of an indexed log for keys, one per key.
IndexedLogRespMaps(keys) == {f \in [keys -> UNION {IndexedLogResps(k) : k \in keys}] : \A k \in keys : f[k] \in IndexedLogResps(k)}

\* FetchState::found_indexedlog
found_indexedlog(s, key, r, typ, policy) ==
    IF r.t \in {"ptr", "badptr"}
    THEN IF policy = "Use"
         THEN IF r.t = "ptr" THEN found_pointer(s, key, r.sha, typ) ELSE keyed_error(s, key, Err("indexedlog_pointer", typ))
         ELSE s
    ELSE found_attributes(s, key, StoreFile(LazyFile("IndexedLog", r.data), NoAux), typ)

\* FetchState::fetch_indexedlog: the loop over the pending keys
RECURSIVE fetch_indexedlog(_, _, _, _, _)
fetch_indexedlog(s, order, resp, typ, policy) ==
    IF order = <<>> THEN s
    ELSE LET key == Head(order)
             r == resp[key]
             s1 == CASE r.t = "none" -> s
                     [] r.t = "err" -> keyed_error(s, key, Err("indexedlog", typ))
                     [] OTHER -> found_indexedlog(s, key, r, typ, policy)
         IN fetch_indexedlog(s1, Tail(order), resp, typ, policy)

\* An absent LfsStore, and an LfsStore holding pointers (by key) and blobs
\* (by content hash).
NoLfsStore == [present |-> FALSE, ptrs |-> EmptyFn, blobs |-> {}, copy_from |-> {}]

LfsStore(ptrs, blobs) == [present |-> TRUE, ptrs |-> ptrs, blobs |-> blobs, copy_from |-> {}]

\* LfsStore::fetch_available: the pointer of the key (looked up by hgid, or by
\* the content hash of a StoreKey::Content), with the blob when the store has it.
fetch_available(lfs, sk) ==
    LET sha == IF sk.t = "Content" THEN sk.sha ELSE IF sk.key \in DOMAIN lfs.ptrs THEN lfs.ptrs[sk.key] ELSE NoSha
        known == IF sk.t = "Content" THEN sha \in lfs.blobs \/ \E k \in DOMAIN lfs.ptrs : lfs.ptrs[k] = sha ELSE sha # NoSha
        copy == IF sk.t = "Content" THEN \E k \in lfs.copy_from : lfs.ptrs[k] = sha ELSE sk.key \in lfs.copy_from
    IN IF ~known THEN Resp("none") ELSE IF sha \in lfs.blobs THEN [t |-> "PointerAndBlob", sha |-> sha, copy |-> copy] ELSE [t |-> "PointerOnly", sha |-> sha, copy |-> copy]

\* FetchState::found_lfs
found_lfs(s, key, entry, typ) ==
    IF entry.t = "PointerAndBlob"
    THEN found_attributes(s, key, StoreFile(LazyLfsOf(entry), NoAux), typ)
    ELSE found_pointer(s, key, entry.sha, typ)

\* FetchState::fetch_lfs: the loop over the pending store keys; failing holds
\* the keys for which fetch_available returns Err.
RECURSIVE fetch_lfs(_, _, _, _, _)
fetch_lfs(s, pending, lfs, failing, typ) ==
    IF pending = <<>> THEN s
    ELSE LET store_key == Head(pending)
             key == store_key.key
             r == fetch_available(lfs, store_key)
             s1 == IF key \in failing THEN keyed_error(s, key, Err("lfs", typ))
                   ELSE IF r.t = "none" THEN s ELSE found_lfs(s, key, r, typ)
         IN fetch_lfs(s1, Tail(pending), lfs, failing, typ)

\* The vector of store keys of fetch_lfs and fetch_contentstore_inner, for
\* one iteration order of the pending set.
StoreKeys(s, order) == [i \in DOMAIN order |-> storekey(s, order[i])]

\* MemcacheStore::get_data_iter: per key no item, an McData with data, an
\* McData flagged is_lfs (well-formed pointer or not); err is an Err item.
McResps(k) == {Resp("none"), Resp("data"), Resp("badptr"), Resp("err")} \cup {PtrResp(sha) : sha \in PtrShas(k)}

\* The items memcache returns, at most one per key.
McRespMaps(keys) == {f \in [keys -> UNION {McResps(k) : k \in keys}] : \A k \in keys : f[k] \in McResps(k)}

\* FetchState::found_memcache, for the entry r of key
found_memcache(s, key, r) ==
    IF r.t \in {"ptr", "badptr"}
    THEN IF r.t = "ptr" THEN found_pointer(s, key, r.sha, "Cache") ELSE keyed_error(s, key, Err("memcache", "try_into"))
    ELSE found_attributes([s EXCEPT !.found_in_memcache = @ \cup {key}], key, StoreFile(LazyFile("Memcache", HgBlobOf(key)), NoAux), "None")

\* The loop of fetch_memcache_inner over the items of the iterator
RECURSIVE fetch_memcache_inner(_, _, _)
fetch_memcache_inner(s, order, resp) ==
    IF order = <<>> THEN s
    ELSE LET key == Head(order)
             r == resp[key]
             s1 == IF r.t = "err" THEN other_error(s, Err("memcache", "item")) ELSE found_memcache(s, key, r)
         IN fetch_memcache_inner(s1, Tail(order), resp)

\* FetchState::fetch_memcache; failed: get_data_iter returned Err.
fetch_memcache(s, order, resp, failed) ==
    IF failed THEN other_error(s, Err("memcache", "get_data_iter")) ELSE fetch_memcache_inner(s, order, resp)

\* EdenApiFileStore::files_blocking: per key no entry, an entry with data
\* (valid or not), or an entry flagged is_lfs.
EdenApiResps(k) == {Resp("none"), Resp("data"), Resp("corrupt"), Resp("badptr")} \cup {PtrResp(sha) : sha \in PtrShas(k)}

\* The entries EdenApi returns, at most one per key.
EdenApiRespMaps(keys) == {f \in [keys -> UNION {EdenApiResps(k) : k \in keys}] : \A k \in keys : f[k] \in EdenApiResps(k)}

\* found_edenapi dropping the entries of keys that are not pending
found_edenapiMutOnlyPending(s, key, r) ==
    IF key \notin s.pending THEN s
    ELSE IF r.t \in {"ptr", "badptr"}
    THEN IF r.t = "ptr" THEN found_pointer(s, key, r.sha, "Cache") ELSE keyed_error(s, key, Err("edenapi", "try_into"))
    ELSE found_attributes([s EXCEPT !.found_in_edenapi = @ \cup {key}], key, StoreFile(LazyFile("EdenApi", IF r.t = "corrupt" THEN Corrupt ELSE HgBlobOf(key)), NoAux), "None")

\* FetchState::found_edenapi, for the entry r of key
found_edenapi(s, key, r) ==
    IF r.t \in {"ptr", "badptr"}
    THEN IF r.t = "ptr" THEN found_pointer(s, key, r.sha, "Cache") ELSE keyed_error(s, key, Err("edenapi", "try_into"))
    ELSE found_attributes([s EXCEPT !.found_in_edenapi = @ \cup {key}], key, StoreFile(LazyFile("EdenApi", IF r.t = "corrupt" THEN Corrupt ELSE HgBlobOf(key)), NoAux), "None")

\* The loop of fetch_edenapi_inner over the entries of the response
RECURSIVE fetch_edenapi_inner(_, _, _)
fetch_edenapi_inner(s, order, resp) ==
    IF order = <<>> THEN s
    ELSE fetch_edenapi_inner(found_edenapi(s, Head(order), resp[Head(order)]), Tail(order), resp)

\* FetchState::fetch_edenapi; failed: files_blocking returned Err.
fetch_edenapi(s, order, resp, failed) ==
    IF failed THEN other_error(s, Err("edenapi", "files_blocking")) ELSE fetch_edenapi_inner(s, order, resp)

\* ContentStore::get and get_meta: nothing, a blob with its metadata, a blob
\* whose metadata is flagged is_lfs, or Err.
ContentStoreResps == {Resp("none"), Resp("data"), Resp("lfs"), Resp("err")}

\* FetchState::found_contentstore
found_contentstore(s, key, r) ==
    IF r.t = "lfs" THEN s
    ELSE found_attributes(s, key, StoreFile(LazyFile("ContentStore", HgBlobOf(key)), NoAux), "None")

\* The loop of fetch_contentstore_inner over the pending store keys
RECURSIVE fetch_contentstore_inner(_, _, _)
fetch_contentstore_inner(s, pending, resp) ==
    IF pending = <<>> THEN s
    ELSE LET key == Head(pending).key
             r == resp[key]
             s1 == CASE r.t = "none" -> s
                     [] r.t = "err" -> keyed_error(s, key, Err("contentstore", "get"))
                     [] OTHER -> found_contentstore(s, key, r)
         IN fetch_contentstore_inner(s1, Tail(pending), resp)

\* FetchState::fetch_contentstore; failed: prefetch returned Err.
fetch_contentstore(s, pending, resp, failed) ==
    IF failed THEN other_error(s, Err("contentstore", "prefetch")) ELSE fetch_contentstore_inner(s, pending, resp)

\* LfsStore::add_blob
add_blob(lfs, sha) == [lfs EXCEPT !.blobs = @ \cup {sha}]

\* The closure fetch_lfs_remote_inner hands to batch_fetch, run for the blobs
\* the remote delivers, in order: r.st is "ok", "err" (the closure returned
\* Err) or "panic" (an expect on an absent store failed).
RECURSIVE batch_fetch(_, _, _, _)
batch_fetch(pointer_origin, delivered, local, cache) ==
    IF delivered = <<>> THEN [st |-> "ok", local |-> local, cache |-> cache]
    ELSE LET sha256 == Head(delivered)
         IN IF sha256 \notin DOMAIN pointer_origin THEN [st |-> "err", local |-> local, cache |-> cache]
            ELSE IF pointer_origin[sha256] = "Local"
                 THEN IF ~local.present THEN [st |-> "panic", local |-> local, cache |-> cache]
                      ELSE batch_fetch(pointer_origin, Tail(delivered), add_blob(local, sha256), cache)
                 ELSE IF ~cache.present THEN [st |-> "panic", local |-> local, cache |-> cache]
                      ELSE batch_fetch(pointer_origin, Tail(delivered), local, add_blob(cache, sha256))

\* The set of content hashes fetch_lfs_remote_inner asks the remote for.
lfs_remote_pending(s) == {s.lfs_pointers[k] : k \in DOMAIN s.lfs_pointers}

\* StoreFile::compute_aux_data succeeds: there is content and it can be read
\* (the aux data of a large file comes from its pointer).
compute_aux_data_ok(sf) == sf.content # NoFile /\ (sf.content.kind = "Lfs" \/ file_content_ok(sf.content))

\* compute_aux_data returning Ok without storing the aux data
compute_aux_dataMutNotStored(sf) == sf

\* StoreFile::compute_aux_data
compute_aux_data(sf) == [sf EXCEPT !.aux_data = lazy_aux_data(sf.content)]

\* The body of the loop of derive_computable for one key of found.
derive_key(s, key) ==
    LET value == s.found[key]
        missing == Sub(s.request_attrs, attrs(value))
        actionable == BitAnd(with_computable(attrs(value)), missing)
        s1 == IF ~actionable.aux_data THEN s
              ELSE IF ~compute_aux_data_ok(value) THEN keyed_error(s, key, Err("derive", "compute_aux_data"))
              ELSE [s EXCEPT !.found[key] = compute_aux_data(value), !.computed_aux_data = MapPut(@, key, s.key_origin[key])]
    IN IF has(attrs(s1.found[key]), s1.request_attrs) THEN mark_complete(s1, key) ELSE s1

\* FetchState::derive_computable: the loop over found
RECURSIVE derive_computable(_, _)
derive_computable(s, keys) ==
    IF keys = {} THEN s
    ELSE LET key == CHOOSE k \in keys : TRUE
         IN derive_computable(derive_key(s, key), keys \ {key})

\* The stores write_to_cache writes to: the entries put so far.
NoWritten == [indexedlog_cache |-> {}, memcache |-> {}, aux_cache |-> {}, aux_local |-> {}]

\* The cache entries of the keys of a writeback bucket.
cache_entries(s, bucket) == UNION {IF s.found[key].content # NoFile THEN indexedlog_cache_entry(s.found[key].content, key) ELSE {} : key \in bucket}

aux_entriesMutAnyOrigin(s, origin) == {[key |-> key, aux_data |-> s.found[key].aux_data] : key \in DOMAIN s.computed_aux_data}

\* The aux entries of the keys derived from an origin.
aux_entries(s, origin) == {[key |-> key, aux_data |-> s.found[key].aux_data] : key \in {k \in DOMAIN s.computed_aux_data : s.computed_aux_data[k] = origin}}

write_to_cacheMutNoMemcache(s, w, indexedlog_cache, memcache, aux_cache, aux_local) ==
    [indexedlog_cache |-> IF indexedlog_cache THEN w.indexedlog_cache \cup cache_entries(s, s.found_in_edenapi) \cup cache_entries(s, s.found_in_memcache) ELSE w.indexedlog_cache,
     memcache |-> w.memcache,
     aux_cache |-> IF aux_cache THEN w.aux_cache \cup aux_entries(s, "Cache") ELSE w.aux_cache,
     aux_local |-> IF aux_local THEN w.aux_local \cup aux_entries(s, "Local") ELSE w.aux_local]

write_to_cacheMutMemcacheBack(s, w, indexedlog_cache, memcache, aux_cache, aux_local) ==
    [indexedlog_cache |-> IF indexedlog_cache THEN w.indexedlog_cache \cup cache_entries(s, s.found_in_edenapi) \cup cache_entries(s, s.found_in_memcache) ELSE w.indexedlog_cache,
     memcache |-> IF memcache THEN w.memcache \cup cache_entries(s, s.found_in_edenapi) \cup cache_entries(s, s.found_in_memcache) ELSE w.memcache,
     aux_cache |-> IF aux_cache THEN w.aux_cache \cup aux_entries(s, "Cache") ELSE w.aux_cache,
     aux_local |-> IF aux_local THEN w.aux_local \cup aux_entries(s, "Local") ELSE w.aux_local]

\* FetchState::write_to_cache: what the stores hold afterwards
write_to_cache(s, w, indexedlog_cache, memcache, aux_cache, aux_local) ==
    [indexedlog_cache |-> IF indexedlog_cache THEN w.indexedlog_cache \cup cache_entries(s, s.found_in_edenapi) \cup cache_entries(s, s.found_in_memcache) ELSE w.indexedlog_cache,
     memcache |-> IF memcache THEN w.memcache \cup cache_entries(s, s.found_in_edenapi) ELSE w.memcache,
     aux_cache |-> IF aux_cache THEN w.aux_cache \cup aux_entries(s, "Cache") ELSE w.aux_cache,
     aux_local |-> IF aux_local THEN w.aux_local \cup aux_entries(s, "Local") ELSE w.aux_local]

\* FetchState::write_to_cache: the buckets are drained
drain(s) == [s EXCEPT !.found_in_edenapi = {}, !.found_in_memcache = {}, !.computed_aux_data = EmptyFn]

\* The indexing and the unwrap of write_to_cache succeed.
write_to_cache_ok(s) ==
    /\ s.found_in_edenapi \cup s.found_in_memcache \cup DOMAIN s.computed_aux_data \subseteq DOMAIN s.found
    /\ \A k \in DOMAIN s.computed_aux_data : s.found[k].aux_data # NoAux

\* FileStoreFetch before the fetch returns
NoFetch == [complete |-> EmptyFn, incomplete |-> EmptyFn, other_errors |-> <<>>]

\* finish keeping in complete the keys that are still pending
finishMutKeepPending(s) ==
    LET found == [k \in DOMAIN s.found |-> mask(s.found[k], s.request_attrs)]
        incomplete == [k \in (DOMAIN s.fetch_errors \cup s.pending) \ DOMAIN found |-> IF k \in DOMAIN s.fetch_errors THEN s.fetch_errors[k] ELSE <<>>]
    IN [complete |-> found, incomplete |-> incomplete, other_errors |-> s.other_errors]

\* FetchState::finish
finish(s) ==
    LET found == [k \in DOMAIN s.found \ s.pending |-> mask(s.found[k], s.request_attrs)]
        incomplete == [k \in (DOMAIN s.fetch_errors \cup s.pending) \ DOMAIN found |-> IF k \in DOMAIN s.fetch_errors THEN s.fetch_errors[k] ELSE <<>>]
    IN [complete |-> found, incomplete |-> incomplete, other_errors |-> s.other_errors]

\* A FileStore: the tiers that are configured, its policy and writeback
\* switches, and its two large-file stores.
NoThreshold == -1

FileStore(tiers, policy, lfs_local, lfs_cache) == [tiers |-> tiers, extstored_policy |-> policy, cache_to_local_cache |-> TRUE, cache_to_memcache |-> TRUE, lfs_local |-> lfs_local, lfs_cache |-> lfs_cache, lfs_threshold_bytes |-> NoThreshold]

\* The large-file stores of the configurations: empty, holding the pointer of
\* k1 without its blob, and holding one large file shared by both keys.
EmptyLfs == LfsStore(EmptyFn, {})

PointerLfs == LfsStore([k \in {"k1"} |-> Sha256("big")], {})

SharedLfs == LfsStore([k \in Keys |-> Sha256("big")], {Sha256("big")})

\* A shared large-file store holding the blob, next to a local one holding
\* only the pointer of k2 to it.
BlobLfs == LfsStore(EmptyFn, {Sha256("big")})

OtherPointerLfs == LfsStore([k \in {"k2"} |-> Sha256("big")], {})

\* The FileStores a fetch runs on.
Configs ==
    { FileStore({"indexedlog_local"}, "Use", NoLfsStore, NoLfsStore),
      FileStore({"aux_cache", "aux_local", "indexedlog_cache", "indexedlog_local"}, "Use", NoLfsStore, NoLfsStore),
      FileStore({"indexedlog_cache", "lfs_remote"}, "Use", NoLfsStore, EmptyLfs),
      FileStore({"indexedlog_local", "lfs_remote"}, "Use", NoLfsStore, EmptyLfs),
      FileStore({"indexedlog_cache", "memcache", "edenapi", "aux_cache"}, "Ignore", NoLfsStore, NoLfsStore),
      FileStore({"indexedlog_local", "contentstore"}, "Ignore", PointerLfs, NoLfsStore),
      FileStore({"memcache", "lfs_remote"}, "Use", SharedLfs, PointerLfs),
      FileStore({"indexedlog_cache"}, "Use", OtherPointerLfs, BlobLfs),
      [FileStore({"indexedlog_cache", "memcache", "edenapi"}, "Use", NoLfsStore, NoLfsStore) EXCEPT !.cache_to_memcache = FALSE],
      [FileStore({"indexedlog_cache", "edenapi"}, "Use", NoLfsStore, NoLfsStore) EXCEPT !.cache_to_local_cache = FALSE] }

localMutKeepMemcache(fs) == [fs EXCEPT !.tiers = @ \ {"edenapi", "lfs_remote", "contentstore"}]

\* FileStore::local: the same stores without memcache, EdenApi, the
\* large-file remote and the legacy ContentStore.
local(fs) == [fs EXCEPT !.tiers = @ \ {"memcache", "edenapi", "lfs_remote", "contentstore"}]

\* The views FileStore::local returns for the configurations.
LocalViews == {local(fs) : fs \in Configs}

StepsMutEdenApiFirst == <<"aux_cache", "aux_local", "indexedlog_cache", "indexedlog_local", "lfs_cache", "lfs_local", "edenapi", "memcache", "lfs_remote", "contentstore", "derive_computable", "write_to_cache", "finish", "done">>

\* The steps of FileStore::fetch, in order.
Steps == <<"aux_cache", "aux_local", "indexedlog_cache", "indexedlog_local", "lfs_cache", "lfs_local", "memcache", "edenapi", "lfs_remote", "contentstore", "derive_computable", "write_to_cache", "finish", "done">>

\* The step after the step at pc.
NextStep(p) == Steps[(CHOOSE i \in DOMAIN Steps : Steps[i] = p) + 1]

\* A probe of an absent tier, or with nothing pending, leaves the state alone.
SkipProbe == UNCHANGED <<state, faults, probes>>

\* fetch: if let Some(aux) = self.aux_cache / self.aux_local { fetch_aux_indexedlog }
FetchAux(tier) ==
    /\ pc = tier
    /\ pc' = NextStep(tier)
    /\ LET pending == pending_all(state, AUX)
       IN IF tier \in store.tiers /\ pending # {}
          THEN \E order \in Orders(pending), resp \in [pending -> AuxResps] :
                 /\ faults + NFaults(resp, {"malformed", "err"}) <= MaxFaults
                 /\ faults' = faults + NFaults(resp, {"malformed", "err"})
                 /\ state' = fetch_aux_indexedlog(state, order, resp, tier)
                 /\ probes' = Append(probes, Probe(tier, pending, {k \in pending : resp[k].t = "aux"}, ~fetch_aux_indexedlog_inner(state, order, resp, tier).ok))
          ELSE SkipProbe
    /\ UNCHANGED <<store, request, written, fetched, result, rdvVars, callVars>>

\* What the local indexed log holds: nothing is known of it until write_batch
\* has run, afterwards it holds the entries write_batch put.
NoDisk == [known |-> FALSE, indexedlog_local |-> EmptyFn, contentstore |-> EmptyFn, calls |-> <<>>]

\* The answers of the indexed log of a tier for the pending keys: any answers,
\* or, for the local log after write_batch, the entries it holds.
IndexedLogAnswers(tier, pending) ==
    IF tier = "indexedlog_local" /\ disk.known
    THEN {[k \in pending |-> IF k \in DOMAIN disk.indexedlog_local THEN DataResp(disk.indexedlog_local[k]) ELSE Resp("none")]}
    ELSE IndexedLogRespMaps(pending)

\* fetch: if let Some(log) = self.indexedlog_cache / indexedlog_local { fetch_indexedlog }
FetchIndexedlog(tier, typ) ==
    /\ pc = tier
    /\ pc' = NextStep(tier)
    /\ LET pending == pending_nonlfs(state, CONTENT)
       IN IF tier \in store.tiers /\ pending # {}
          THEN \E order \in Orders(pending), resp \in IndexedLogAnswers(tier, pending) :
                 /\ faults + NFaults(resp, {"badptr", "err"}) <= MaxFaults
                 /\ faults' = faults + NFaults(resp, {"badptr", "err"})
                 /\ state' = fetch_indexedlog(state, order, resp, typ, store.extstored_policy)
                 /\ probes' = Append(probes, Probe(tier, pending, {k \in pending : resp[k].t \notin {"none", "err"}}, FALSE))
          ELSE SkipProbe
    /\ UNCHANGED <<store, request, written, fetched, result, rdvVars, callVars>>

\* FetchState::fetch_lfs on a large-file store, for every iteration order and
\* every set of at most budget keys whose lookup fails: the state afterwards,
\* the number of failed lookups and the probe made (none if the store is
\* absent or nothing is pending).
fetch_lfs_outcomes(s, tier, lfs, typ, budget) ==
    LET pending == pending_storekey(s, CONTENT)
    IN IF lfs.present /\ pending # {}
       THEN {[s |-> fetch_lfs(s, StoreKeys(s, order), lfs, failing, typ), nf |-> Cardinality(failing),
              probes |-> <<Probe(tier, pending, {k \in pending \ failing : fetch_available(lfs, storekey(s, k)).t # "none"}, FALSE)>>] :
                order \in Orders(pending), failing \in {f \in SUBSET pending : Cardinality(f) <= budget}}
       ELSE {[s |-> s, nf |-> 0, probes |-> <<>>]}

\* fetch: if let Some(lfs) = self.lfs_cache / lfs_local { fetch_lfs }
FetchLfs(tier, typ) ==
    /\ pc = tier
    /\ pc' = NextStep(tier)
    /\ \E o \in fetch_lfs_outcomes(state, tier, store[tier], typ, MaxFaults - faults) :
         /\ state' = o.s
         /\ faults' = faults + o.nf
         /\ probes' = probes \o o.probes
    /\ UNCHANGED <<store, request, written, fetched, result, rdvVars, callVars>>

\* The keys of the entries a batch backend returns.
Returned(resp) == {k \in DOMAIN resp : resp[k].t # "none"}

\* The faults of a batch answer: a failed batch, an answer that is one of
\* bad, an entry for a key that was not asked for.
BatchFaults(resp, pending, bad, failed) == (IF failed THEN 1 ELSE 0) + NFaults(resp, bad) + Cardinality(Returned(resp) \ pending)

\* fetch: if let Some(memcache) = self.memcache { fetch_memcache }
FetchMemcache ==
    /\ pc = "memcache"
    /\ pc' = NextStep("memcache")
    /\ LET pending == pending_nonlfs(state, CONTENT)
       IN IF "memcache" \in store.tiers /\ pending # {}
          THEN \E failed \in BOOLEAN, resp \in McRespMaps(Keys) : \E order \in Orders(Returned(resp)) :
                 /\ failed => Returned(resp) = {}
                 /\ faults + BatchFaults(resp, pending, {"badptr", "err"}, failed) <= MaxFaults
                 /\ faults' = faults + BatchFaults(resp, pending, {"badptr", "err"}, failed)
                 /\ state' = fetch_memcache(state, order, resp, failed)
                 /\ probes' = Append(probes, Probe("memcache", pending, Returned(resp), failed))
          ELSE SkipProbe
    /\ UNCHANGED <<store, request, written, fetched, result, rdvVars, callVars>>

\* fetch: if let Some(edenapi) = self.edenapi { fetch_edenapi }
FetchEdenApi ==
    /\ pc = "edenapi"
    /\ pc' = NextStep("edenapi")
    /\ LET pending == pending_nonlfs(state, CONTENT)
       IN IF "edenapi" \in store.tiers /\ pending # {}
          THEN \E failed \in BOOLEAN, resp \in EdenApiRespMaps(Keys) : \E order \in Orders(Returned(resp)) :
                 /\ failed => Returned(resp) = {}
                 /\ faults + BatchFaults(resp, pending, {"badptr", "corrupt"}, failed) <= MaxFaults
                 /\ faults' = faults + BatchFaults(resp, pending, {"badptr", "corrupt"}, failed)
                 /\ state' = fetch_edenapi(state, order, resp, failed)
                 /\ probes' = Append(probes, Probe("edenapi", pending, Returned(resp), failed))
          ELSE SkipProbe
    /\ UNCHANGED <<store, request, written, fetched, result, rdvVars, callVars>>

\* fetch: if let Some(contentstore) = self.contentstore { fetch_contentstore }
FetchContentStore ==
    /\ pc = "contentstore"
    /\ pc' = NextStep("contentstore")
    /\ LET pending == pending_storekey(state, CONTENT)
       IN IF "contentstore" \in store.tiers /\ pending # {}
          THEN \E failed \in BOOLEAN, order \in Orders(pending), resp \in [pending -> ContentStoreResps] :
                 /\ failed => Returned(resp) = {}
                 /\ faults + BatchFaults(resp, pending, {"err"}, failed) <= MaxFaults
                 /\ faults' = faults + BatchFaults(resp, pending, {"err"}, failed)
                 /\ state' = fetch_contentstore(state, StoreKeys(state, order), resp, failed)
                 /\ probes' = Append(probes, Probe("contentstore", pending, {k \in pending : resp[k].t \in {"data", "lfs"}}, failed))
          ELSE SkipProbe
    /\ UNCHANGED <<store, request, written, fetched, result, rdvVars, callVars>>

\* fetch_lfs_remote: batch_fetch delivers the blobs of delivered to the closure;
\* failed: the remote returns Err after that. Then, if nothing failed, the
\* large-file stores are probed again, the cache first.
FetchLfsRemote ==
    /\ pc = "lfs_remote"
    /\ LET pending == lfs_remote_pending(state)
       IN IF "lfs_remote" \in store.tiers /\ pending # {}
          THEN \E failed \in BOOLEAN, blobs \in SUBSET Shas : \E delivered \in Orders(blobs) :
                 LET r == batch_fetch(state.pointer_origin, delivered, store.lfs_local, store.lfs_cache)
                     nf == (IF failed THEN 1 ELSE 0) + Cardinality(blobs \ pending)
                     probe == Probe("lfs_remote", DOMAIN state.lfs_pointers, blobs, r.st = "err" \/ (r.st = "ok" /\ failed))
                 IN /\ faults + nf <= MaxFaults
                    /\ store' = [store EXCEPT !.lfs_local = r.local, !.lfs_cache = r.cache]
                    /\ IF r.st = "panic"
                       THEN /\ pc' = "panic"
                            /\ state' = state
                            /\ faults' = faults + nf
                            /\ probes' = Append(probes, probe)
                       ELSE IF r.st = "err" \/ failed
                       THEN /\ pc' = NextStep("lfs_remote")
                            /\ state' = other_error(state, Err("lfs_remote", "batch_fetch"))
                            /\ faults' = faults + nf
                            /\ probes' = Append(probes, probe)
                       ELSE \E c \in fetch_lfs_outcomes(state, "lfs_cache", r.cache, "Cache", MaxFaults - faults - nf) :
                              \E l \in fetch_lfs_outcomes(c.s, "lfs_local", r.local, "Local", MaxFaults - faults - nf - c.nf) :
                                /\ pc' = NextStep("lfs_remote")
                                /\ state' = l.s
                                /\ faults' = faults + nf + c.nf + l.nf
                                /\ probes' = Append(probes, probe) \o c.probes \o l.probes
          ELSE /\ pc' = NextStep("lfs_remote")
               /\ UNCHANGED <<store, state, faults, probes>>
    /\ UNCHANGED <<request, written, fetched, result, rdvVars, callVars>>

\* fetch: state.derive_computable()
DeriveComputable ==
    /\ pc = "derive_computable"
    /\ pc' = NextStep("derive_computable")
    /\ state' = derive_computable(state, DOMAIN state.found)
    /\ UNCHANGED <<store, request, faults, probes, written, fetched, result, rdvVars, callVars>>

\* fetch: state.write_to_cache(..); an index or unwrap that fails panics.
WriteToCache ==
    /\ pc = "write_to_cache"
    /\ IF write_to_cache_ok(state)
       THEN /\ pc' = NextStep("write_to_cache")
            /\ written' = write_to_cache(state, written, "indexedlog_cache" \in store.tiers /\ store.cache_to_local_cache, "memcache" \in store.tiers /\ store.cache_to_memcache, "aux_cache" \in store.tiers, "aux_local" \in store.tiers)
            /\ state' = drain(state)
       ELSE /\ pc' = "panic"
            /\ UNCHANGED <<written, state>>
    /\ UNCHANGED <<store, request, faults, probes, fetched, result, rdvVars, callVars>>

\* fetch: state.finish()
Finish ==
    /\ pc = "finish"
    /\ pc' = "done"
    /\ fetched' = finish(state)
    /\ UNCHANGED <<store, request, state, faults, probes, written, result, rdvVars, callVars>>

\* No call has returned yet.
NoResult == [t |-> "none"]

\* Result::Ok(v) and Result::Err(e)
ResultOk(v) == [t |-> "Ok", v |-> v]

ResultErr(e) == [t |-> "Err", v |-> e]

\* Vec::pop on a non-empty vector: its last element
Last(errors) == errors[Len(errors)]

missingMutIgnoreOther(f) ==
    LET failing == {k \in DOMAIN f.incomplete : f.incomplete[k] # <<>>}
    IN IF failing = {}
       THEN {ResultOk(DOMAIN f.incomplete)}
       ELSE {ResultErr(Last(f.incomplete[k])) : k \in failing}

\* FileStoreFetch::missing: the values it can return. incomplete is a HashMap
\* drained in an arbitrary order, so the first key met with an error can be
\* any key that has one; the Vec of keys returned is taken as a set.
missing(f) ==
    IF f.other_errors # <<>>
    THEN {ResultErr(Last(f.other_errors))}
    ELSE LET failing == {k \in DOMAIN f.incomplete : f.incomplete[k] # <<>>}
         IN IF failing = {}
            THEN {ResultOk(DOMAIN f.incomplete)}
            ELSE {ResultErr(Last(f.incomplete[k])) : k \in failing}

\* The caller consumes the FileStoreFetch with missing(), as get_missing does.
Missing ==
    /\ pc = "done"
    /\ pc' = "missing"
    /\ result' \in missing(fetched)
    /\ UNCHANGED <<store, request, state, faults, probes, written, fetched, rdvVars, callVars>>

\* Ok(Some(file)) and Ok(None) of FileStoreFetch::single
OkFile(sf) == [t |-> "OkSome", v |-> sf]

OkNoFile == [t |-> "OkNone"]

singleMutIgnoreOther(f) ==
    IF DOMAIN f.incomplete # {}
    THEN {IF f.incomplete[k] # <<>> THEN ResultErr(Last(f.incomplete[k])) ELSE OkNoFile : k \in DOMAIN f.incomplete}
    ELSE IF DOMAIN f.complete # {}
    THEN {OkFile(f.complete[k]) : k \in DOMAIN f.complete}
    ELSE {ResultErr(Err("single", "no results found in either incomplete or complete"))}

\* FileStoreFetch::single: the values it can return. The last of other_errors,
\* if there is one; else the loop over incomplete returns in its first
\* iteration, on whichever key the drain yields first; else the first entry
\* the drain of complete yields, or an error if there is none.
single(f) ==
    IF f.other_errors # <<>>
    THEN {ResultErr(Last(f.other_errors))}
    ELSE IF DOMAIN f.incomplete # {}
    THEN {IF f.incomplete[k] # <<>> THEN ResultErr(Last(f.incomplete[k])) ELSE OkNoFile : k \in DOMAIN f.incomplete}
    ELSE IF DOMAIN f.complete # {}
    THEN {OkFile(f.complete[k]) : k \in DOMAIN f.complete}
    ELSE {ResultErr(Err("single", "no results found in either incomplete or complete"))}

\* The caller consumes the FileStoreFetch with single(), as FileStore::get does.
Single ==
    /\ pc = "done"
    /\ pc' = "single"
    /\ result' \in single(fetched)
    /\ UNCHANGED <<store, request, state, faults, probes, written, fetched, rdvVars, callVars>>

\* The stores FileStore::flush flushes, in the order of its code.
FlushOrder == <<"indexedlog_local", "indexedlog_cache", "lfs_local", "lfs_cache", "aux_local", "aux_cache">>

\* if let Some(ref store) = self.<store>
Configured(fs, st) == IF st \in {"lfs_local", "lfs_cache"} THEN fs[st].present ELSE st \in fs.tiers

\* FileStore::flush, when the flushes of the stores of failing return Err: the
\* calls made, one per configured store, and the value returned. handle_error
\* assigns result = Err(error), so the error of the last failed flush stays.
flush(fs, failing) ==
    LET flushed == SelectSeq(FlushOrder, LAMBDA st : Configured(fs, st))
        errors == SelectSeq(flushed, LAMBDA st : st \in failing)
    IN [calls |-> [i \in DOMAIN flushed |-> Probe(flushed[i], {}, {}, flushed[i] \in failing)],
        result |-> IF errors = <<>> THEN ResultOk(<<>>) ELSE ResultErr(Err(Last(errors), "flush"))]

\* FileStore::flush is called; any of the flushes may fail.
Flush ==
    /\ pc = "flush"
    /\ pc' = "flushed"
    /\ \E failing \in SUBSET {st \in {"indexedlog_local", "indexedlog_cache", "lfs_local", "lfs_cache", "aux_local", "aux_cache"} : Configured(store, st)} :
         /\ probes' = probes \o flush(store, failing).calls
         /\ result' = flush(store, failing).result
    /\ UNCHANGED <<store, request, state, faults, written, fetched, rdvVars, callVars>>

(***************************************************************************)
(* FileStore::write_batch and HgIdMutableDeltaStore::add                   *)
(***************************************************************************)
\* No write_batch is under way.
NoFail == [at |-> 0, call |-> 0]

NoBatch == [entries |-> <<>>, testtmp |-> FALSE, fail |-> NoFail, base |-> "-"]

\* The local indexed log and the ContentStore of a fresh FileStore.
EmptyDisk == [known |-> TRUE, indexedlog_local |-> EmptyFn, contentstore |-> EmptyFn, calls |-> <<>>]

\* Length in bytes of a text and of a Mercurial file blob (the copy header
\* counts).
TextLen(text) == CASE text = "big" -> 3 [] text = "hello" -> 5 [] text = "world" -> 5 [] OTHER -> 0

HeaderLen == 4

BlobLen(bytes) == (IF bytes.copy THEN HeaderLen ELSE 0) + TextLen(bytes.text)

\* A store call made for the entry at an index of the batch.
Call(at, op) == [at |-> at, op |-> op]

\* LfsStore::add_pointer: the pointer of the key, replacing an earlier one.
add_pointer(lfs, key, pointer) ==
    [lfs EXCEPT !.ptrs = MapPut(@, key, pointer.sha),
                !.copy_from = IF pointer.copy_from THEN @ \cup {key} ELSE @ \ {key}]

\* What write_batch returns, with the stores as it leaves them.
WriteResult(res, fs, d) == [result |-> res, store |-> fs, disk |-> d]

OverThresholdMutAtThreshold(fs, bytes) == fs.lfs_threshold_bytes # NoThreshold /\ BlobLen(bytes) >= fs.lfs_threshold_bytes

\* self.lfs_threshold_bytes.map_or(false, |threshold| hg_blob_len > threshold)
OverThreshold(fs, bytes) == fs.lfs_threshold_bytes # NoThreshold /\ BlobLen(bytes) > fs.lfs_threshold_bytes

RECURSIVE write_batchMutSkipFailed(_, _, _, _)
write_batchMutSkipFailed(fs, d, b, i) ==
    IF i > Len(b.entries) THEN WriteResult(ResultOk(<<>>), fs, d)
    ELSE LET e == b.entries[i]
             fails(n) == b.fail = [at |-> i, call |-> n]
             called(ops) == [d EXCEPT !.calls = @ \o [j \in DOMAIN ops |-> Call(i, ops[j])]]
             lfs == lfs_from_hg_file_blob(e.bytes)
         IN IF e.lfs
            THEN IF ~b.testtmp \/ "contentstore" \notin fs.tiers \/ fails(1)
                 THEN write_batchMutSkipFailed(fs, d, b, i + 1)
                 ELSE write_batchMutSkipFailed(fs, [called(<<"write_ptr", "contentstore.add">>) EXCEPT !.contentstore = MapPut(@, e.key, e.bytes)], b, i + 1)
            ELSE IF OverThreshold(fs, e.bytes)
                 THEN IF ~fs.lfs_local.present \/ fails(1) \/ fails(2) \/ fails(3)
                      THEN write_batchMutSkipFailed(fs, d, b, i + 1)
                      ELSE write_batchMutSkipFailed([fs EXCEPT !.lfs_local = add_pointer(add_blob(@, lfs.pointer.sha), e.key, lfs.pointer)], called(<<"add_blob", "add_pointer">>), b, i + 1)
                 ELSE IF "indexedlog_local" \notin fs.tiers \/ fails(1)
                      THEN write_batchMutSkipFailed(fs, d, b, i + 1)
                      ELSE write_batchMutSkipFailed(fs, [called(<<"put_entry">>) EXCEPT !.indexedlog_local = MapPut(@, e.key, e.bytes)], b, i + 1)

\* FileStore::write_batch from the entry at index i on: the loop over the
\* entries, left with Err at the first `?` or ensure! that fails. fails(n)
\* says that the n-th fallible call made for the entry returns Err.
RECURSIVE write_batch(_, _, _, _)
write_batch(fs, d, b, i) ==
    IF i > Len(b.entries) THEN WriteResult(ResultOk(<<>>), fs, d)
    ELSE LET e == b.entries[i]
             fails(n) == b.fail = [at |-> i, call |-> n]
             called(ops) == [d EXCEPT !.calls = @ \o [j \in DOMAIN ops |-> Call(i, ops[j])]]
             lfs == lfs_from_hg_file_blob(e.bytes)
         IN IF e.lfs
            THEN IF ~b.testtmp
                 THEN WriteResult(ResultErr(Err("write_batch", "writing LFS pointers directly is not allowed outside of tests")), fs, d)
                 ELSE IF "contentstore" \notin fs.tiers
                 THEN WriteResult(ResultErr(Err("write_batch", "trying to write LFS pointer but no ContentStore is available")), fs, d)
                 ELSE IF fails(1)
                 THEN WriteResult(ResultErr(Err("contentstore", "add")), fs, called(<<"write_ptr", "contentstore.add">>))
                 ELSE write_batch(fs, [called(<<"write_ptr", "contentstore.add">>) EXCEPT !.contentstore = MapPut(@, e.key, e.bytes)], b, i + 1)
            ELSE IF OverThreshold(fs, e.bytes)
                 THEN IF ~fs.lfs_local.present
                      THEN WriteResult(ResultErr(Err("write_batch", "trying to write LFS file but no local LfsStore is available")), fs, d)
                      ELSE IF fails(1)
                      THEN WriteResult(ResultErr(Err("lfs", "lfs_from_hg_file_blob")), fs, d)
                      ELSE IF fails(2)
                      THEN WriteResult(ResultErr(Err("lfs", "add_blob")), fs, called(<<"add_blob">>))
                      ELSE IF fails(3)
                      THEN WriteResult(ResultErr(Err("lfs", "add_pointer")), [fs EXCEPT !.lfs_local = add_blob(@, lfs.pointer.sha)], called(<<"add_blob", "add_pointer">>))
                      ELSE write_batch([fs EXCEPT !.lfs_local = add_pointer(add_blob(@, lfs.pointer.sha), e.key, lfs.pointer)], called(<<"add_blob", "add_pointer">>), b, i + 1)
                 ELSE IF "indexedlog_local" \notin fs.tiers
                      THEN WriteResult(ResultErr(Err("write_batch", "trying to write non-LFS file but no local non-LFS IndexedLog is available")), fs, d)
                      ELSE IF fails(1)
                      THEN WriteResult(ResultErr(Err("indexedlog", "put_entry")), fs, called(<<"put_entry">>))
                      ELSE write_batch(fs, [called(<<"put_entry">>) EXCEPT !.indexedlog_local = MapPut(@, e.key, e.bytes)], b, i + 1)

\* HgIdMutableDeltaStore::add for FileStore: write_batch of the one entry of a
\* delta without base, Err for a delta with a base.
add(fs, d, b, base) ==
    IF base = "None"
    THEN write_batch(fs, d, b, 1)
    ELSE WriteResult(ResultErr(Err("add", "Deltas with non-None base are not supported")), fs, d)

\* A caller runs write_batch on the entries.
WriteBatch ==
    /\ pc = "write_batch"
    /\ pc' = "written"
    /\ LET r == write_batch(store, disk, batch, 1)
       IN /\ store' = r.store
          /\ disk' = r.disk
          /\ result' = r.result
    /\ UNCHANGED <<request, state, faults, probes, written, fetched, batch, lookup, rdvVars>>

\* A caller runs add on a delta made of the one entry, with or without base.
Add ==
    /\ pc = "write_batch"
    /\ Len(batch.entries) = 1
    /\ pc' = "written"
    /\ \E base \in {"None", "Some"} :
         /\ batch' = [batch EXCEPT !.base = base]
         /\ LET r == add(store, disk, batch, base)
            IN /\ store' = r.store
               /\ disk' = r.disk
               /\ result' = r.result
    /\ UNCHANGED <<request, state, faults, probes, written, fetched, lookup, rdvVars>>

\* The keys of the entries of the batch.
BatchKeys == {batch.entries[i].key : i \in DOMAIN batch.entries}

\* After a successful write the caller fetches the content of the written
\* keys from the same FileStore; its stores answer without errors.
FetchWritten ==
    /\ pc = "written"
    /\ result.t = "Ok"
    /\ pc' = "aux_cache"
    /\ request' = [keys |-> BatchKeys, attrs |-> CONTENT]
    /\ state' = FetchStateNew(BatchKeys, CONTENT)
    /\ faults' = MaxFaults
    /\ UNCHANGED <<store, probes, written, fetched, result, batch, disk, lookup, rdvVars>>

(***************************************************************************)
(* BackingScmStores::get_tree_batch and get_blob_batch                     *)
(***************************************************************************)
\* A key of the request vector that is an Err.
Invalid == "invalid"

\* Ok(None) and Ok(Some(v)), the results resolve is given for a key.
OkNone == ResultOk(<<"None">>)

OkSome(v) == ResultOk(<<"Some", v>>)

\* One call resolve(index, res).
Resolve(index, res) == [index |-> index, res |-> res]

\* No batch call is under way.
NoLookup == [api |-> "-", keys |-> <<>>, local_only |-> FALSE, fetch |-> [t |-> "none", e |-> <<>>, complete |-> <<>>, incomplete |-> <<>>], resolved |-> <<>>]

indexesMutLast(keys) == [k \in {keys[i] : i \in DOMAIN keys} \ {Invalid} |-> CHOOSE i \in DOMAIN keys : keys[i] = k /\ \A j \in (i + 1)..Len(keys) : keys[j] # k]

\* The key-index mapping: every valid key with the index of its first
\* occurrence (a later occurrence finds the entry occupied).
indexes(keys) == [k \in {keys[i] : i \in DOMAIN keys} \ {Invalid} |-> CHOOSE i \in DOMAIN keys : keys[i] = k /\ \A j \in 1..(i - 1) : keys[j] # k]

\* The resolve calls made while the mapping is built, from index i on: the
\* key's own error for an invalid key, the duplicate-key error for a key
\* that is already mapped.
RECURSIVE resolve_key_errors(_, _, _, _)
resolve_key_errors(keys, idx, i, api) ==
    IF i > Len(keys) THEN <<>>
    ELSE (IF keys[i] = Invalid THEN <<Resolve(i, ResultErr(Err("key", keys[i])))>>
          ELSE IF idx[keys[i]] # i THEN <<Resolve(i, ResultErr(Err(api, "duplicated keys are not supported")))>>
          ELSE <<>>) \o resolve_key_errors(keys, idx, i + 1, api)

\* The loops over the fetch results: resolve(index, res) for a key whose
\* index indexes.remove(&key) yields, nothing for a key without index.
RECURSIVE resolve_results(_, _)
resolve_results(results, idx) ==
    IF results = <<>> THEN <<>>
    ELSE LET r == Head(results)
         IN IF r.key \in DOMAIN idx
            THEN <<Resolve(idx[r.key], r.res)>> \o resolve_results(Tail(results), MapDel(idx, r.key))
            ELSE resolve_results(Tail(results), idx)

\* The tree of a key (named by the key), and a key the store returns without being asked.
TreeOf(k) == k

OtherKey == "k3"

\* The entries of order whose part is one of kinds, in order.
RECURSIVE Select(_, _, _)
Select(order, part, kinds) ==
    IF order = <<>> THEN <<>>
    ELSE (IF part[Head(order)] \in kinds THEN <<Head(order)>> ELSE <<>>) \o Select(Tail(order), part, kinds)

\* No fetch_batch has returned.
NoTreeFetch == [t |-> "none", e |-> <<>>, complete |-> <<>>, incomplete |-> <<>>]

\* TreeStore::fetch_batch: Err, or every requested key either in complete
\* (with an entry that converts to a tree list or not) or in incomplete,
\* possibly with a key that was not requested.
TreeFetches(keys) ==
    {[t |-> "Err", e |-> Err("treestore", "fetch_batch"), complete |-> <<>>, incomplete |-> <<>>]}
    \cup UNION {{[t |-> "Ok", e |-> <<>>,
                  complete |-> [i \in DOMAIN Select(order, part, {"complete", "unparsable"}) |-> [key |-> Select(order, part, {"complete", "unparsable"})[i], parsable |-> part[Select(order, part, {"complete", "unparsable"})[i]] = "complete"]],
                  incomplete |-> Select(order, part, {"incomplete"})] :
                   order \in Orders(keys \cup extra), part \in [keys \cup extra -> {"complete", "unparsable", "incomplete"}]} : extra \in {{}, {OtherKey}}}

\* get_tree_batch's results for the complete entries (the converted tree, or
\* the error of the conversion), followed by those for the incomplete keys.
TreeResults(r) ==
    [i \in DOMAIN r.complete |-> [key |-> r.complete[i].key, res |-> IF r.complete[i].parsable THEN OkSome(TreeOf(r.complete[i].key)) ELSE ResultErr(Err("tree", r.complete[i].key))]]
    \o [i \in DOMAIN r.incomplete |-> [key |-> r.incomplete[i], res |-> OkNone]]

\* BackingScmStores::get_tree_batch: the resolve calls it makes, for a result
\* of fetch_batch and an iteration order of indexes.values().
get_tree_batch(keys, r, order) ==
    LET idx == indexes(keys)
    IN resolve_key_errors(keys, idx, 1, "get_tree_batch")
       \o IF r.t = "Err"
          THEN [i \in DOMAIN order |-> Resolve(idx[order[i]], IF i = 1 THEN ResultErr(r.e) ELSE ResultErr(Err("get_tree_batch", "failed across the entire batch")))]
          ELSE resolve_results(TreeResults(r), idx)

\* A caller runs get_tree_batch.
GetTreeBatch ==
    /\ pc = "get_tree_batch"
    /\ pc' = "resolved"
    /\ \E r \in TreeFetches(DOMAIN indexes(lookup.keys)), order \in Orders(DOMAIN indexes(lookup.keys)) :
         lookup' = [lookup EXCEPT !.fetch = r, !.resolved = get_tree_batch(lookup.keys, r, order)]
    /\ UNCHANGED <<store, request, state, faults, probes, written, fetched, result, batch, disk, rdvVars>>

\* get_blob_batch up to its fetch: the key errors are resolved and the fetch
\* of the mapped keys is started on the FileStore or on its local view.
GetBlobBatch ==
    /\ pc = "get_blob_batch"
    /\ pc' = "aux_cache"
    /\ lookup' = [lookup EXCEPT !.resolved = resolve_key_errors(lookup.keys, indexes(lookup.keys), 1, "get_blob_batch")]
    /\ store' = IF lookup.local_only THEN local(store) ELSE store
    /\ request' = [keys |-> DOMAIN indexes(lookup.keys), attrs |-> CONTENT]
    /\ state' = FetchStateNew(DOMAIN indexes(lookup.keys), CONTENT)
    /\ UNCHANGED <<faults, probes, written, fetched, result, batch, disk, rdvVars>>

\* What get_blob_batch makes of a fetched file: its file_content.
BlobResult(file) ==
    IF file.content = NoFile THEN ResultErr(Err("file_content", "no content available"))
    ELSE IF ~file_content_ok(file.content) THEN ResultErr(Err("file_content", "data"))
    ELSE OkSome(file_content(file.content))

\* FileStoreFetch::fetch_results: every complete key with its file, every
\* incomplete key with its last error or, if it has none, with None.
fetch_results(f, complete, incomplete) ==
    [i \in DOMAIN complete |-> [key |-> complete[i], res |-> BlobResult(f.complete[complete[i]])]]
    \o [i \in DOMAIN incomplete |-> [key |-> incomplete[i], res |-> IF f.incomplete[incomplete[i]] = <<>> THEN OkNone ELSE ResultErr(Last(f.incomplete[incomplete[i]]))]]

\* get_blob_batch after its fetch: the loop over the fetch results.
ResolveBlobs ==
    /\ pc = "done"
    /\ lookup.api = "get_blob_batch"
    /\ pc' = "resolved"
    /\ \E complete \in Orders(DOMAIN fetched.complete), incomplete \in Orders(DOMAIN fetched.incomplete) :
         lookup' = [lookup EXCEPT !.resolved = @ \o resolve_results(fetch_results(fetched, complete, incomplete), indexes(lookup.keys))]
    /\ UNCHANGED <<store, request, state, faults, probes, written, fetched, result, batch, disk, rdvVars>>

(***************************************************************************)
(* The two specifications: a RendezVous serving dispatch calls while no     *)
(* fetch runs, and one FileStore::fetch while the RendezVous is idle.       *)
(***************************************************************************)
\* RendezVous::new
RdvInit ==
    /\ staging = NoStaging
    /\ epochs = [e \in Epochs |-> NoEpoch]
    /\ callers = [c \in Callers |-> NoCaller]
    /\ stats = NoStats
    /\ batch = NoBatch
    /\ disk = NoDisk
    /\ lookup = NoLookup
    /\ store = FileStore({}, "Use", NoLfsStore, NoLfsStore)
    /\ request = [keys |-> {}, attrs |-> NONE]
    /\ pc = "done"
    /\ state = FetchStateNew({}, NONE)
    /\ faults = 0
    /\ probes = <<>>
    /\ written = NoWritten
    /\ fetched = NoFetch
    /\ result = NoResult

RdvNext ==
    \/ \E c \in Callers : Dispatch(c)
    \/ \E e \in Epochs : TimerFire(e)
    \/ \E e \in Epochs : EpochDispatch(e, TRUE)
    \/ \E e \in Epochs : EpochDispatch(e, FALSE)
    \/ \E e \in Epochs : EpochComplete(e)
    \/ \E c \in Callers : CallerComplete(c)
    \/ \E c \in Callers : NotBatchedCall(c)
    \/ \E c \in Callers : NotBatchedComplete(c)
    \/ \E c \in Callers : Drop(c)

RdvSpec == RdvInit /\ [][RdvNext]_vars

\* What keeps a RendezVous going: wait_for_dispatch returns, a shared future
\* that is ready and has a participant polling it runs, the backend call
\* completes, and a caller whose shared future is done is polled. Nothing
\* obliges a caller to call dispatch or to drop its future.
RdvFairness ==
    /\ \A e \in Epochs : WF_vars(TimerFire(e)) /\ WF_vars(EpochDispatch(e, TRUE)) /\ WF_vars(EpochDispatch(e, FALSE)) /\ WF_vars(EpochComplete(e))
    /\ \A c \in Callers : WF_vars(CallerComplete(c))

RdvLiveSpec == RdvInit /\ [][RdvNext]_vars /\ RdvFairness

\* FileStore::fetch has been called with keys and attrs on one of the
\* configurations or on its local view, and FetchState::new has run.
Init ==
    /\ store \in Configs \cup LocalViews
    /\ request \in [keys : KeySets, attrs : AttrSets]
    /\ pc = "aux_cache"
    /\ state = FetchStateNew(request.keys, request.attrs)
    /\ faults = 0
    /\ probes = <<>>
    /\ written = NoWritten
    /\ fetched = NoFetch
    /\ result = NoResult
    /\ staging = NoStaging
    /\ epochs = [e \in Epochs |-> NoEpoch]
    /\ callers = [c \in Callers |-> NoCaller]
    /\ stats = NoStats
    /\ batch = NoBatch
    /\ disk = NoDisk
    /\ lookup = NoLookup

\* FileStore::fetch, one step at a time
Next ==
    \/ FetchAux("aux_cache")
    \/ FetchAux("aux_local")
    \/ FetchIndexedlog("indexedlog_cache", "Cache")
    \/ FetchIndexedlog("indexedlog_local", "Local")
    \/ FetchLfs("lfs_cache", "Cache")
    \/ FetchLfs("lfs_local", "Local")
    \/ FetchMemcache
    \/ FetchEdenApi
    \/ FetchLfsRemote
    \/ FetchContentStore
    \/ DeriveComputable
    \/ WriteToCache
    \/ Finish
    \/ Missing
    \/ Single

Spec == Init /\ [][Next]_vars

\* The FileStores flush is called on: every combination of the six stores.
FlushConfigs == {FileStore(tiers, "Use", lfs_local, lfs_cache) : tiers \in SUBSET {"indexedlog_local", "indexedlog_cache", "aux_local", "aux_cache"}, lfs_local \in {NoLfsStore, EmptyLfs}, lfs_cache \in {NoLfsStore, EmptyLfs}}

\* FileStore::flush is about to be called on a FileStore, with no fetch running.
FlushInit ==
    /\ store \in FlushConfigs
    /\ request = [keys |-> {}, attrs |-> NONE]
    /\ pc = "flush"
    /\ state = FetchStateNew({}, NONE)
    /\ faults = 0
    /\ probes = <<>>
    /\ written = NoWritten
    /\ fetched = NoFetch
    /\ result = NoResult
    /\ staging = NoStaging
    /\ epochs = [e \in Epochs |-> NoEpoch]
    /\ callers = [c \in Callers |-> NoCaller]
    /\ stats = NoStats
    /\ batch = NoBatch
    /\ disk = NoDisk
    /\ lookup = NoLookup

FlushNext == Flush

FlushSpec == FlushInit /\ [][FlushNext]_vars

\* The blobs write_batch is given: at the threshold, over it without a copy
\* header, and over it with one.
WriteBlobs == {HgBlob(FALSE, "big"), HgBlob(FALSE, "hello"), HgBlob(TRUE, "big")}

\* Number of entries of a batch.
MaxEntries == 2

\* The configured threshold of the FileStores written to.
Threshold == 3

\* The FileStores write_batch is called on: with and without a local indexed
\* log, a ContentStore, a local large-file store and a threshold.
WriteConfigs == {[FileStore(tiers, "Use", lfs_local, NoLfsStore) EXCEPT !.lfs_threshold_bytes = t] : tiers \in SUBSET {"indexedlog_local", "contentstore"}, lfs_local \in {NoLfsStore, EmptyLfs}, t \in {NoThreshold, Threshold}}

\* The batches: a key always comes with the same bytes (its hgid is their
\* hash), flagged LFS or not; at most one store call fails.
Batches ==
    {[entries |-> [i \in 1..n |-> [key |-> keys[i], bytes |-> bytes[keys[i]], lfs |-> flags[i]]], testtmp |-> testtmp, fail |-> fail, base |-> "-"] :
        n \in 1..MaxEntries, keys \in [1..MaxEntries -> Keys], bytes \in [Keys -> WriteBlobs], flags \in [1..MaxEntries -> BOOLEAN],
        testtmp \in BOOLEAN, fail \in {NoFail} \cup [at : 1..MaxEntries, call : 1..3]}

\* write_batch is about to be called on a fresh FileStore.
WriteInit ==
    /\ store \in WriteConfigs
    /\ batch \in Batches
    /\ disk = EmptyDisk
    /\ lookup = NoLookup
    /\ request = [keys |-> {}, attrs |-> NONE]
    /\ pc = "write_batch"
    /\ state = FetchStateNew({}, NONE)
    /\ faults = 0
    /\ probes = <<>>
    /\ written = NoWritten
    /\ fetched = NoFetch
    /\ result = NoResult
    /\ staging = NoStaging
    /\ epochs = [e \in Epochs |-> NoEpoch]
    /\ callers = [c \in Callers |-> NoCaller]
    /\ stats = NoStats

\* write_batch or add, then a fetch of the written keys
WriteNext ==
    \/ WriteBatch
    \/ Add
    \/ FetchWritten
    \/ FetchAux("aux_cache")
    \/ FetchAux("aux_local")
    \/ FetchIndexedlog("indexedlog_cache", "Cache")
    \/ FetchIndexedlog("indexedlog_local", "Local")
    \/ FetchLfs("lfs_cache", "Cache")
    \/ FetchLfs("lfs_local", "Local")
    \/ FetchMemcache
    \/ FetchEdenApi
    \/ FetchLfsRemote
    \/ FetchContentStore
    \/ DeriveComputable
    \/ WriteToCache
    \/ Finish

WriteSpec == WriteInit /\ [][WriteNext]_vars

\* Length of the key vector of a batch call.
MaxKeys == 3

\* The FileStores get_blob_batch runs on.
BatchConfigs ==
    { FileStore({"indexedlog_local", "edenapi"}, "Use", NoLfsStore, NoLfsStore),
      FileStore({"indexedlog_cache", "memcache"}, "Use", NoLfsStore, NoLfsStore) }

\* The batch calls: the key vectors of valid keys and key errors.
Lookups == {[api |-> api, keys |-> keys, local_only |-> local_only, fetch |-> NoTreeFetch, resolved |-> <<>>] :
              api \in {"get_tree_batch", "get_blob_batch"}, keys \in UNION {[1..n -> Keys \cup {Invalid}] : n \in 1..MaxKeys}, local_only \in BOOLEAN}

\* get_tree_batch or get_blob_batch is about to be called.
BatchInit ==
    /\ store \in BatchConfigs
    /\ lookup \in Lookups
    /\ pc = lookup.api
    /\ batch = NoBatch
    /\ disk = NoDisk
    /\ request = [keys |-> {}, attrs |-> NONE]
    /\ state = FetchStateNew({}, NONE)
    /\ faults = 0
    /\ probes = <<>>
    /\ written = NoWritten
    /\ fetched = NoFetch
    /\ result = NoResult
    /\ staging = NoStaging
    /\ epochs = [e \in Epochs |-> NoEpoch]
    /\ callers = [c \in Callers |-> NoCaller]
    /\ stats = NoStats

\* get_tree_batch; get_blob_batch with the steps of its fetch
BatchNext ==
    \/ GetTreeBatch
    \/ GetBlobBatch
    \/ FetchAux("aux_cache")
    \/ FetchAux("aux_local")
    \/ FetchIndexedlog("indexedlog_cache", "Cache")
    \/ FetchIndexedlog("indexedlog_local", "Local")
    \/ FetchLfs("lfs_cache", "Cache")
    \/ FetchLfs("lfs_local", "Local")
    \/ FetchMemcache
    \/ FetchEdenApi
    \/ FetchLfsRemote
    \/ FetchContentStore
    \/ DeriveComputable
    \/ WriteToCache
    \/ Finish
    \/ ResolveBlobs

BatchSpec == BatchInit /\ [][BatchNext]_vars

(***************************************************************************)
(* Properties of RendezVous, checked under RdvSpec.                        *)
(***************************************************************************)
Dispatched(e) == epochs[e].pc \in {"backend", "done", "cancelled"}

RECURSIVE SumKeys(_)
SumKeys(S) == IF S = {} THEN 0 ELSE LET c == CHOOSE x \in S : TRUE IN Cardinality(callers[c].keys) + SumKeys(S \ {c})

\* The duplicates among the keys of the callers that joined epoch e.
DuplicatesOf(e) == SumKeys(Participants(e)) - Cardinality(EpochKeys(e))

RECURSIVE SumDuplicates(_)
SumDuplicates(E) == IF E = {} THEN 0 ELSE LET e == CHOOSE x \in E : TRUE IN DuplicatesOf(e) + SumDuplicates(E \ {e})

\* The backend map a completed caller's result was made from.
BackendRetOf(c) == IF callers[c].e = 0 THEN callers[c].ret ELSE epochs[callers[c].e].ret

\* C2: the backend call is invoked at most once for a staging epoch, however
\* many callers joined it.
C2_OneCallPerEpoch == \A e \in Epochs : Len(epochs[e].calls) <= 1

C2_Witness == \E e \in Epochs : Cardinality(Participants(e)) = 2 /\ epochs[e].pc = "done" /\ Len(epochs[e].calls) = 1

\* C3: a dispatch that completes successfully, batched or not, returns a map
\* whose keys are exactly the requested keys: Some(value) for a key the
\* backend answered, None for a key it did not, and no other key.
C3_ProjectionExact ==
    \A c \in Callers : callers[c].st = "done" /\ callers[c].out.st = "ok" =>
        /\ BackendRetOf(c).st = "ok"
        /\ DOMAIN callers[c].out.map = callers[c].keys
        /\ \A k \in callers[c].keys :
            /\ k \in DOMAIN BackendRetOf(c).map => callers[c].out.map[k] = {BackendRetOf(c).map[k]}
            /\ k \notin DOMAIN BackendRetOf(c).map => callers[c].out.map[k] = {}

C3_Witness ==
    /\ callers[1].st = "done" /\ callers[1].e # 0 /\ callers[1].keys = {"k1", "k2"}
    /\ callers[1].out = OkRet([k \in {"k1", "k2"} |-> IF k = "k1" THEN {ValOf("k1")} ELSE {}])
    /\ DOMAIN epochs[callers[1].e].ret.map = {"k1", "k3"}
    /\ callers[2].st = "done" /\ callers[2].e = 0 /\ callers[2].keys = {"k2", "k3"}
    /\ callers[2].out = OkRet([k \in {"k2", "k3"} |-> IF k = "k3" THEN {ValOf("k3")} ELSE {}])

\* C4: the backend call of an epoch receives exactly the union of the key
\* sets of the callers that joined it, and keys_deduplicated counts exactly
\* the keys of joining callers that were already staged.
C4_UnionAndDedup ==
    /\ \A e \in Epochs : Dispatched(e) => epochs[e].calls = <<EpochKeys(e)>>
    /\ staging.e # 0 => staging.keys = EpochKeys(staging.e)
    /\ stats.keys_deduplicated = SumDuplicates(Epochs)

C4_Witness ==
    /\ callers[1].keys = {"k1", "k2"} /\ callers[2].keys = {"k2", "k3"}
    /\ callers[1].e = 1 /\ callers[2].e = 1
    /\ epochs[1].calls = <<{"k1", "k2", "k3"}>>
    /\ epochs[2].pc = "unused"
    /\ stats.keys_deduplicated = 1

\* C5: dispatch takes the non-batched path iff should_batch() is false or the
\* request has at least early_dispatch_threshold() keys; on that path the
\* backend is called with exactly the request's keys, dispatch_no_batch is
\* incremented once per call, and the staging slot is left unchanged.
C5_NotBatchedInv ==
    /\ \A c \in Callers : callers[c].st # "idle" =>
        /\ callers[c].e = 0 <=> (~callers[c].should_batch \/ Cardinality(callers[c].keys) >= early_dispatch_threshold)
        /\ callers[c].e = 0 /\ callers[c].st \in {"nb_backend", "done"} => callers[c].calls = <<callers[c].keys>>
        /\ callers[c].e = 0 /\ callers[c].st = "nb_created" => callers[c].calls = <<>>
    /\ stats.dispatch_no_batch = Cardinality({c \in Callers : callers[c].e = 0 /\ callers[c].calls # <<>>})

C5_NotBatchedFrame ==
    \A c \in Callers : callers'[c].st # "idle" /\ callers'[c].e = 0 /\ callers'[c] # callers[c] /\ callers'[c].st # "dropped" =>
        staging' = staging /\ epochs' = epochs

C5_NotBatched == []C5_NotBatchedInv /\ [][C5_NotBatchedFrame]_vars

C5_Witness ==
    /\ callers[1].st = "waiting" /\ staging.e = 1
    /\ callers[2].st = "done" /\ callers[2].e = 0 /\ callers[2].should_batch /\ Cardinality(callers[2].keys) = early_dispatch_threshold
    /\ stats.dispatch_no_batch = 1

\* C6: the callers that joined one epoch observe the same outcome of its
\* backend call: all a projection of the same map, or all the error.
C6_SameOutcome ==
    \A c, d \in Callers : callers[c].st = "done" /\ callers[d].st = "done" /\ callers[c].e # 0 /\ callers[c].e = callers[d].e =>
        /\ callers[c].out.st = callers[d].out.st
        /\ callers[c].out.st = epochs[callers[c].e].ret.st
        /\ callers[c].out.st = "ok" => \A k \in callers[c].keys \cap callers[d].keys : callers[c].out.map[k] = callers[d].out.map[k]

C6_Witness ==
    /\ callers[1].e = 1 /\ callers[2].e = 1
    /\ callers[1].st = "done" /\ callers[2].st = "done"
    /\ callers[1].out.st = "err" /\ callers[2].out.st = "err"

\* C7: a participant dropping its future leaves the epoch's shared future
\* alone: the backend call is not cancelled while a participant remains, the
\* drop changes neither the slot nor the shared future, and the remaining
\* participants still complete with the projection of the shared result.
C7_NotCancelledInv ==
    /\ \A e \in Epochs : epochs[e].pc = "cancelled" => LiveParticipants(e) = {}
    /\ \A c \in Callers : callers[c].st = "done" /\ callers[c].e # 0 =>
        /\ epochs[callers[c].e].pc = "done"
        /\ callers[c].out.st = epochs[callers[c].e].ret.st
        /\ callers[c].out.st = "ok" => \A k \in callers[c].keys \cap DOMAIN epochs[callers[c].e].ret.map : callers[c].out.map[k] = {ValOf(k)}

C7_DropFrame ==
    \A c \in Callers : callers[c].st = "waiting" /\ callers'[c].st = "dropped" /\ LiveParticipants(callers[c].e) # {c} =>
        staging' = staging /\ epochs' = epochs

C7_DropSurvives == []C7_NotCancelledInv /\ [][C7_DropFrame]_vars

C7_Witness ==
    /\ callers[1].e = 1 /\ callers[2].e = 1
    /\ callers[1].st = "dropped" /\ callers[2].st = "done"
    /\ callers[2].out.st = "ok" /\ callers[2].keys = {"k2", "k3"}
    /\ callers[2].out.map["k3"] = {ValOf("k3")}

CompleteKeys == DOMAIN fetched.complete

IncompleteKeys == DOMAIN fetched.incomplete

\* The keys of the entries memcache and EdenApi returned although the keys
\* were not part of the request.
Unrequested == UNION {probes[i].returned \ request.keys : i \in {j \in DOMAIN probes : probes[j].tier \in {"memcache", "edenapi"}}}

\* Every requested key is complete with the requested attributes, or incomplete.
Covered == \A k \in request.keys : (k \in CompleteKeys /\ has(attrs(fetched.complete[k]), request.attrs)) \/ k \in IncompleteKeys

RECURSIVE ErrorsIn(_, _)
ErrorsIn(log, k) ==
    IF log = <<>> THEN <<>>
    ELSE (IF Head(log)[1] = k THEN <<Head(log)[2]>> ELSE <<>>) \o ErrorsIn(Tail(log), k)

\* The keys a step of fetch probes its tier for.
TierPending(s, step) ==
    CASE step \in {"aux_cache", "aux_local"} -> pending_all(s, AUX)
      [] step \in {"indexedlog_cache", "indexedlog_local", "memcache", "edenapi"} -> pending_nonlfs(s, CONTENT)
      [] step \in {"lfs_cache", "lfs_local", "contentstore"} -> pending_storekey(s, CONTENT)
      [] step = "lfs_remote" -> DOMAIN s.lfs_pointers
      [] OTHER -> {}

\* The tier of a step is configured.
TierPresent(step) == IF step \in {"lfs_cache", "lfs_local"} THEN store[step].present ELSE step \in store.tiers

\* In the result: a complete key has no entry in incomplete, and a requested
\* incomplete key maps to exactly the keyed errors recorded for it.
C9_Result ==
    pc = "done" =>
        /\ \A k \in CompleteKeys : k \notin IncompleteKeys
        /\ \A k \in request.keys \cap IncompleteKeys : fetched.incomplete[k] = ErrorsIn(state.keyed_log, k)
        /\ \A k \in request.keys \ CompleteKeys : k \in IncompleteKeys

\* A step in which a keyed error is recorded for a pending key goes on to the
\* next step and leaves the key pending unless the key's attributes are now
\* covered; and a step whose tier is configured probes it for every key that
\* is pending for it, whatever errors the key has.
C9_Step ==
    /\ \A k \in state.pending :
           Len(ErrorsIn(state'.keyed_log, k)) > Len(ErrorsIn(state.keyed_log, k))
               => /\ pc' \in {NextStep(pc), "panic"}
                  /\ k \in state'.pending \/ (k \in DOMAIN state'.found /\ has(attrs(state'.found[k]), request.attrs))
    /\ \A k \in DOMAIN state.fetch_errors \cap TierPending(state, pc) :
           TierPresent(pc) => Len(probes') > Len(probes) /\ k \in probes'[Len(probes) + 1].keys

\* C9: a keyed error never aborts the fetch (later tiers are still probed for
\* the key); in the result a complete key has no entry in incomplete and a
\* requested incomplete key maps to exactly the list of keyed errors recorded
\* for it, empty iff no tier reported an error for it.
C9_KeyedErrors == []C9_Result /\ [][C9_Step]_vars

\* A fetch returned one key complete although a tier had reported an error
\* for it, and another key incomplete with the error reported for it.
C9_Witness ==
    /\ pc = "done"
    /\ \E k \in CompleteKeys : ErrorsIn(state.keyed_log, k) # <<>>
    /\ \E k \in IncompleteKeys : fetched.incomplete[k] # <<>>
    /\ Len(probes) >= 2

\* A probe was made in this step and failed at batch granularity.
ProbeFailed == Len(probes') > Len(probes) /\ probes'[Len(probes) + 1].failed

\* C10: when a tier probe fails at batch granularity the error is appended
\* to other_errors, the fetch goes on to the later tiers, and no key gains a
\* found attribute or a pointer from the failed probe.
C10_FailedTierContributesNothing ==
    [][ProbeFailed =>
         /\ Len(state'.other_errors) = Len(state.other_errors) + 1
         /\ pc' = NextStep(pc)
         /\ state'.found = state.found
         /\ state'.lfs_pointers = state.lfs_pointers]_vars

\* C11: missing() returns Err iff other_errors is non-empty or some
\* incomplete key has a non-empty error list; otherwise it returns Ok with
\* exactly the incomplete keys, none of which is a complete key.
C11_Missing ==
    pc = "missing" =>
        /\ result.t \in {"Ok", "Err"}
        /\ result.t = "Err" <=> (fetched.other_errors # <<>> \/ \E k \in DOMAIN fetched.incomplete : fetched.incomplete[k] # <<>>)
        /\ result.t = "Ok" => (result.v = DOMAIN fetched.incomplete /\ result.v \cap DOMAIN fetched.complete = {})

\* missing() has returned Ok with a key that was not found, after a fetch
\* that completed another key.
C11_Witness == pc = "missing" /\ result.t = "Ok" /\ result.v # {} /\ DOMAIN fetched.complete # {}

\* write_to_cache has run.
AfterWriteback == pc \in {"finish", "done", "missing", "single"}

\* The requested keys whose content in found is an EdenApi entry: found_edenapi
\* is the only place such a value is made, from a non-LFS entry EdenApi returned.
EdenApiContent == {k \in request.keys \cap DOMAIN state.found : state.found[k].content # NoFile /\ state.found[k].content.kind = "EdenApi"}

\* The indexed-log entry of the content found for a key.
CacheEntry(k) == [key |-> k, data |-> state.found[k].content.data]

\* What write_to_cache is given as its indexed-log cache and its memcache.
WritesIndexedLog == "indexedlog_cache" \in store.tiers /\ store.cache_to_local_cache

WritesMemcache == "memcache" \in store.tiers /\ store.cache_to_memcache

\* The writeback of the EdenApi content of the keys of a set.
EdenApiWrittenBack(keys) ==
    /\ state.found_in_edenapi = {}
    /\ \A k \in keys :
         /\ WritesIndexedLog => CacheEntry(k) \in written.indexedlog_cache
         /\ CacheEntry(k) \in written.memcache <=> WritesMemcache

\* C12 as stated: every requested key for which EdenApi returned non-LFS
\* content has been written back.
C12_Original == AfterWriteback => EdenApiWrittenBack(EdenApiContent)

\* The EdenApi content found for a key stays the key's content until the
\* fetch returns.
C12_Kept == \A k \in EdenApiContent : k \in DOMAIN state'.found /\ state'.found[k].content = state.found[k].content

\* C12 (amended): after a fetch in which EdenApi returned non-LFS content
\* whose data() succeeds for a requested key, write_to_cache has written an
\* entry for that key with that content to the indexed-log cache (when one is
\* configured and cache_to_local_cache is set) and has passed it to memcache
\* iff a memcache is configured and cache_to_memcache is set; found_in_edenapi
\* is empty after write_to_cache.
C12_EdenApiWriteback ==
    /\ [](AfterWriteback => EdenApiWrittenBack({k \in EdenApiContent : file_content_ok(state.found[k].content)}))
    /\ [][C12_Kept]_vars

\* EdenApi content of a requested key has been written to the indexed-log
\* cache of a FileStore whose memcache is not written back to.
C12_Witness ==
    /\ AfterWriteback
    /\ "memcache" \in store.tiers /\ ~store.cache_to_memcache
    /\ written.memcache = {}
    /\ \E k \in EdenApiContent : file_content_ok(state.found[k].content) /\ CacheEntry(k) \in written.indexedlog_cache

\* The keys of the entries a step adds to a store written back to.
NewKeys(bucket) == {e.key : e \in written'[bucket] \ written[bucket]}

\* The keys of found whose content came from a large-file store or from the
\* legacy ContentStore.
LfsOrLegacyContent == {k \in DOMAIN state.found : state.found[k].content # NoFile /\ state.found[k].content.kind \in {"Lfs", "ContentStore"}}

\* What every step writes: to memcache only keys found in EdenApi, to the
\* indexed-log cache only keys found in EdenApi or memcache, and no key whose
\* content is large-file or legacy content.
C13_WritesOnlyBuckets ==
    /\ NewKeys("memcache") \subseteq state.found_in_edenapi
    /\ NewKeys("indexedlog_cache") \subseteq state.found_in_edenapi \cup state.found_in_memcache
    /\ (NewKeys("memcache") \cup NewKeys("indexedlog_cache")) \cap LfsOrLegacyContent = {}

AuxEntry(k) == [key |-> k, aux_data |-> state.found[k].aux_data]

\* For a key whose aux_data was derived: it is the sha256 of the key's file
\* content, the origin recorded with it is the key's key_origin, and
\* write_to_cache puts its entry in the aux store of that origin (if the
\* FileStore has one) and not in the other.
C14_Derived(k) ==
    /\ state.found[k].content # NoFile
    /\ state.found[k].aux_data = Sha256(file_content(state.found[k].content))
    /\ state.computed_aux_data[k] = state.key_origin[k]
    /\ AuxEntry(k) \in written'.aux_local <=> (state.key_origin[k] = "Local" /\ "aux_local" \in store.tiers)
    /\ AuxEntry(k) \in written'.aux_cache <=> (state.key_origin[k] = "Cache" /\ "aux_cache" \in store.tiers)

\* C14: derived aux_data is the sha256 of the key's file content and is
\* written to exactly the aux store matching the key's recorded key_origin,
\* never to the other one.
C14_DerivedAux == [][pc = "write_to_cache" /\ pc' = "finish" => \A k \in DOMAIN state.computed_aux_data : C14_Derived(k)]_vars

\* Aux data derived for a key of each origin has been written, each to its
\* own store only.
C14_Witness ==
    /\ AfterWriteback
    /\ \E k1 \in DOMAIN state.found, k2 \in DOMAIN state.found :
         /\ state.key_origin[k1] = "Local" /\ state.key_origin[k2] = "Cache"
         /\ AuxEntry(k1) \in written.aux_local /\ AuxEntry(k1) \notin written.aux_cache
         /\ AuxEntry(k2) \in written.aux_cache /\ AuxEntry(k2) \notin written.aux_local

\* The step of fetch_lfs_remote in which the remote was called, and the
\* record of that call: the content hashes it delivered to the closure and
\* whether the call failed.
LfsRemoteCalled == pc = "lfs_remote" /\ Len(probes') > Len(probes)

RemoteCall == probes'[Len(probes) + 1]

\* The blobs a large-file store holds (none if the FileStore has no such store).
Blobs(lfs) == IF lfs.present THEN lfs.blobs ELSE {}

\* The large-file store an origin selects.
OriginStore(fs, origin) == IF origin = "Local" THEN fs.lfs_local ELSE fs.lfs_cache

\* The requested keys with a pointer to sha whose content the request wants.
PointerKeys(sha) == {k \in request.keys \cap DOMAIN state.lfs_pointers : state.lfs_pointers[k] = sha /\ state.request_attrs.content}

\* The remote delivered the blob of sha, held by no local large-file store,
\* the batch returned Ok and no lookup of the re-probe failed.
DeliveredBlob(sha) ==
    /\ LfsRemoteCalled
    /\ sha \in RemoteCall.returned /\ ~RemoteCall.failed
    /\ sha \in DOMAIN state.pointer_origin
    /\ sha \notin Blobs(store.lfs_local) \cup Blobs(store.lfs_cache)
    /\ state'.keyed_log = state.keyed_log

\* After the batch and the re-probe: the keys pointing to sha have the blob
\* as their content and the store of the pointer's origin holds the blob.
Resolved(sha) ==
    /\ pc' = "contentstore"
    /\ sha \in Blobs(OriginStore(store', state.pointer_origin[sha]))
    /\ \A k \in PointerKeys(sha) : k \in DOMAIN state'.found /\ state'.found[k].content = LazyLfs(sha)

\* Large-file content a requested key has after the large-file remote step
\* stays, and the key is complete with it when the fetch returns.
LfsContentKept ==
    pc \in {"contentstore", "derive_computable", "write_to_cache", "finish"} /\ state.request_attrs.content =>
        \A k \in request.keys \cap DOMAIN state.found :
            state.found[k].content # NoFile /\ state.found[k].content.kind = "Lfs" =>
                /\ state'.found[k].content = state.found[k].content
                /\ pc' = "done" => k \in DOMAIN fetched'.complete /\ fetched'.complete[k].content = state.found[k].content

\* C15: if a tier yielded a pointer with content hash S for a requested key,
\* no local large-file store holds the blob and the large-file remote
\* delivers it, then after the re-probe the key has the blob as its content,
\* ends complete with it, and the store of the pointer's origin holds the blob.
C15_LfsIndirection == [][(\A sha \in Shas : DeliveredBlob(sha) => Resolved(sha)) /\ LfsContentKept]_vars

\* The same, for the FileStores that have the large-file store of the
\* pointer's origin.
C15_WhenOriginStorePresent == [][(\A sha \in Shas : DeliveredBlob(sha) /\ OriginStore(store, state.pointer_origin[sha]).present => Resolved(sha)) /\ LfsContentKept]_vars

\* The blobs a step adds to a large-file store.
NewBlobs(origin) == Blobs(OriginStore(store', origin)) \ Blobs(OriginStore(store, origin))

\* C16: every blob the remote delivers is written to exactly the large-file
\* store pointer_origin selects for its hash, and a delivered hash without an
\* origin produces an error and no write.
C16_BlobToOriginStore ==
    [][/\ \A origin \in {"Local", "Cache"} : NewBlobs(origin) \subseteq {sha \in Shas : LfsRemoteCalled /\ sha \in RemoteCall.returned /\ sha \in DOMAIN state.pointer_origin /\ state.pointer_origin[sha] = origin}
       /\ LfsRemoteCalled =>
            /\ pc' = "contentstore"
            /\ ~RemoteCall.failed => \A sha \in RemoteCall.returned : sha \in Blobs(OriginStore(store', state.pointer_origin[sha]))
            /\ (\E sha \in RemoteCall.returned : sha \notin DOMAIN state.pointer_origin) => RemoteCall.failed /\ Len(state'.other_errors) > Len(state.other_errors)]_vars

\* The same, for the FileStores that have the large-file stores of all origins
\* recorded.
C16_WhenOriginStorePresent ==
    [][/\ \A origin \in {"Local", "Cache"} : NewBlobs(origin) \subseteq {sha \in Shas : LfsRemoteCalled /\ sha \in RemoteCall.returned /\ sha \in DOMAIN state.pointer_origin /\ state.pointer_origin[sha] = origin}
       /\ LfsRemoteCalled /\ (\A sha \in DOMAIN state.pointer_origin : OriginStore(store, state.pointer_origin[sha]).present) =>
            /\ pc' = "contentstore"
            /\ ~RemoteCall.failed => \A sha \in RemoteCall.returned : sha \in Blobs(OriginStore(store', state.pointer_origin[sha]))
            /\ (\E sha \in RemoteCall.returned : sha \notin DOMAIN state.pointer_origin) => RemoteCall.failed /\ Len(state'.other_errors) > Len(state.other_errors)]_vars

\* C17: for every combination of tiers and every backend response, fetch
\* returns without panicking.
C17_NoPanic == pc # "panic"

\* The errors keyed_error records for an entry flagged is_lfs that does not
\* parse as a pointer.
PointerErrors == {Err("indexedlog_pointer", "Cache"), Err("indexedlog_pointer", "Local"), Err("memcache", "try_into"), Err("edenapi", "try_into")}

\* A step records no pointer and no error of an entry flagged is_lfs.
NoPointerRecorded ==
    /\ DOMAIN state'.lfs_pointers \subseteq DOMAIN state.lfs_pointers
    /\ DOMAIN state'.pointer_origin \subseteq DOMAIN state.pointer_origin
    /\ \A i \in DOMAIN state'.keyed_log : state'.keyed_log[i][2] \in PointerErrors => i \in DOMAIN state.keyed_log

\* C18: with extstored_policy Ignore, an entry flagged is_lfs yielded by the
\* indexed logs, memcache or EdenApi records no pointer and no error.
C18_IgnorePolicy == [][store.extstored_policy = "Ignore" /\ pc \in {"indexedlog_cache", "indexedlog_local", "memcache", "edenapi"} => NoPointerRecorded]_vars

\* The same, for the indexed logs alone.
C18_IndexedLogIgnores == [][store.extstored_policy = "Ignore" /\ pc \in {"indexedlog_cache", "indexedlog_local"} => NoPointerRecorded]_vars

\* The backends FileStore::local strips.
RemoteTiers == {"memcache", "edenapi", "lfs_remote", "contentstore"}

\* The content returned for a key was held by a local store when the fetch
\* began: an indexed log returned an entry for the key, or a large-file store
\* held the blob.
FromLocalStore(k) ==
    LET c == fetched.complete[k].content
    IN c # NoFile =>
         \/ c.kind = "IndexedLog" /\ \E i \in DOMAIN probes : probes[i].tier \in {"indexedlog_cache", "indexedlog_local"} /\ k \in probes[i].returned
         \/ c.kind = "Lfs" /\ c.sha \in Blobs(store.lfs_local) \cup Blobs(store.lfs_cache)

\* C19: a fetch on the view returned by FileStore::local() calls none of
\* memcache, EdenApi, the large-file remote and the legacy ContentStore, and
\* returns only content a local store held at the start (the stores of the
\* view are not written to during the fetch).
C19_LocalView ==
    /\ [](store \in LocalViews => (\A i \in DOMAIN probes : probes[i].tier \notin RemoteTiers) /\ (\A k \in DOMAIN fetched.complete : FromLocalStore(k)))
    /\ [][(store \in LocalViews) => UNCHANGED store]_vars

\* A fetch on the local view of a FileStore with remote backends has
\* returned a large file and has left another key incomplete.
C19_Witness ==
    /\ pc = "done" /\ store \in LocalViews \ Configs
    /\ \E k \in DOMAIN fetched.complete : fetched.complete[k].content # NoFile /\ fetched.complete[k].content.kind = "Lfs"
    /\ DOMAIN fetched.incomplete # {}

(***************************************************************************)
(* Properties of FileStore::flush, checked under FlushSpec.                *)
(***************************************************************************)
\* The configured stores, and the stores whose flush failed.
ConfiguredStores == {FlushOrder[i] : i \in {j \in DOMAIN FlushOrder : Configured(store, FlushOrder[j])}}

FailedFlushes == {probes[i].tier : i \in {j \in DOMAIN probes : probes[j].failed}}

\* Every configured store was flushed exactly once, failed flushes before it
\* or not, and flush returned Ok iff no flush failed.
AllFlushedOnce ==
    /\ \A st \in ConfiguredStores : Cardinality({i \in DOMAIN probes : probes[i].tier = st}) = 1
    /\ \A i \in DOMAIN probes : probes[i].tier \in ConfiguredStores
    /\ result.t = "Ok" <=> FailedFlushes = {}

\* The errors an error value carries: an anyhow::Error made from the error of
\* one flush carries that error alone.
ErrorsOf(err) == {err}

\* C20: flush attempts the flush of every configured store exactly once even
\* when an earlier flush fails, returns Ok iff no flush failed, and the error
\* returned aggregates the errors of all failed flushes.
C20_FlushAggregates ==
    pc = "flushed" =>
        /\ AllFlushedOnce
        /\ result.t = "Err" => \A st \in FailedFlushes : Err(st, "flush") \in ErrorsOf(result.v)

\* What holds instead: all stores are flushed once, Ok iff none failed, and
\* the error returned is the error of the last flush that failed.
C20_FlushReturnsLastError ==
    pc = "flushed" =>
        /\ AllFlushedOnce
        /\ result.t = "Err" => \E i \in DOMAIN probes : probes[i].failed /\ result.v = Err(probes[i].tier, "flush") /\ \A j \in DOMAIN probes : j > i => ~probes[j].failed

(***************************************************************************)
(* Properties of the order of FileStore::fetch, checked under Spec.        *)
(***************************************************************************)
\* The order of the backend calls of one fetch; the large-file stores appear
\* a second time, for the re-probe after the large-file remote.
ProbeOrder == <<"aux_cache", "aux_local", "indexedlog_cache", "indexedlog_local", "lfs_cache", "lfs_local", "memcache", "edenapi", "lfs_remote", "lfs_cache", "lfs_local", "contentstore">>

\* The place in ProbeOrder of the i-th backend call made.
Rank(i) ==
    LET tier == probes[i].tier
        reprobe == \E j \in 1..(i - 1) : probes[j].tier = "lfs_remote"
    IN CHOOSE r \in DOMAIN ProbeOrder : ProbeOrder[r] = tier /\ (tier \in {"lfs_cache", "lfs_local"} => (r > 9 <=> reprobe))

\* The backend calls made so far were made in the fixed order, each tier at
\* most once per place; nothing is derived before the last probe, nothing is
\* written back before derivation, and finish comes last.
InOrder ==
    /\ \A i \in DOMAIN probes : probes[i].tier \in {ProbeOrder[r] : r \in DOMAIN ProbeOrder}
    /\ \A i, j \in DOMAIN probes : i < j => Rank(i) < Rank(j)
    /\ state.computed_aux_data # EmptyFn => pc = "write_to_cache"
    /\ written # NoWritten => pc \in {"finish", "done", "missing", "single"}
    /\ fetched # NoFetch => pc \in {"done", "missing", "single"}

\* The step of derive_computable, of write_to_cache and of finish is taken
\* once, in this order, and no backend is called from derivation on.
StepsInOrder ==
    /\ IF pc = "done" THEN pc' \in {"missing", "single"} ELSE pc' \in {NextStep(pc), "panic"}
    /\ pc \in {"derive_computable", "write_to_cache", "finish", "done"} => probes' = probes
    /\ pc # "write_to_cache" => written' = written

\* C25: the configured tiers are probed in the fixed order, then
\* derive_computable runs once, then write_to_cache once, then finish; nothing
\* is written back before derivation.
C25_FixedOrder == []InOrder /\ [][StepsInOrder]_vars

\* A fetch has probed the local large-file store, then the large-file remote,
\* then the local large-file store again, and has returned.
C25_Witness ==
    /\ pc = "done"
    /\ \E i, j, k \in DOMAIN probes : i < j /\ j < k /\ probes[i].tier = "lfs_local" /\ probes[j].tier = "lfs_remote" /\ probes[k].tier = "lfs_local"

\* The keys pending for a tier: what the tier can make progress on.
PendingFor(tier) ==
    IF tier \in {"aux_cache", "aux_local"} THEN pending_all(state, AUX)
    ELSE IF tier \in {"indexedlog_cache", "indexedlog_local", "memcache", "edenapi"} THEN pending_nonlfs(state, CONTENT)
    ELSE IF tier = "lfs_remote" THEN {k \in DOMAIN state.lfs_pointers : k \in pending_all(state, CONTENT)}
    ELSE pending_storekey(state, CONTENT)

\* The backend calls a step makes.
NewProbes == {probes'[i] : i \in (Len(probes) + 1)..Len(probes')}

\* A step that calls a backend calls it for exactly the keys pending for it,
\* all of them in pending, and never with no key.
OnlyPending(tiers) ==
    /\ \A p \in NewProbes : p.tier \in tiers => p.keys # {}
    /\ Len(probes') > Len(probes) /\ probes'[Len(probes) + 1].tier \in tiers =>
         /\ probes'[Len(probes) + 1].keys \subseteq state.pending
         /\ probes'[Len(probes) + 1].keys = PendingFor(probes'[Len(probes) + 1].tier)

\* C26: every backend is called for exactly the keys still pending for it,
\* and is not called at all when no key is pending for it.
C26_OnlyPending == [][OnlyPending({ProbeOrder[r] : r \in DOMAIN ProbeOrder})]_vars

\* The same, for every backend but the large-file remote.
C26_ExceptLfsRemote == [][OnlyPending({ProbeOrder[r] : r \in DOMAIN ProbeOrder} \ {"lfs_remote"})]_vars

(***************************************************************************)
(* Properties of the FetchState between the steps of a fetch, under Spec.  *)
(***************************************************************************)
\* The found attributes of a key cover the request.
Covers(s, k) == k \in DOMAIN s.found /\ has(attrs(s.found[k]), s.request_attrs)

\* A requested key is out of pending iff its found attributes cover the
\* request.
PendingIffNotCovered == \A k \in request.keys : k \notin state.pending <=> Covers(state, k)

\* A key out of pending stays out of pending.
NeverPendingAgain == \A k \in request.keys : k \notin state.pending => k \notin state'.pending

\* C27: between the steps of a fetch a requested key is absent from pending
\* iff found[k] exists and covers request_attrs (so it leaves pending at the
\* step at which its attributes first cover the request), and a completed key
\* never re-enters pending.
C27_CompleteIffCovered == []PendingIffNotCovered /\ [][NeverPendingAgain]_vars

\* One requested key has been completed while the other is still pending with
\* some of its attributes found.
C27_Witness ==
    /\ pc \in {"memcache", "edenapi", "lfs_remote", "contentstore"}
    /\ \E k1 \in request.keys, k2 \in request.keys : k1 \notin state.pending /\ k2 \in state.pending /\ k2 \in DOMAIN state.found

\* C28: for every key in lfs_pointers the pointer's content hash has an entry
\* in pointer_origin.
C28_PointerHasOrigin == \A k \in DOMAIN state.lfs_pointers : state.lfs_pointers[k] \in DOMAIN state.pointer_origin

\* C29: no key in lfs_pointers has content in found, so the batch sent to the
\* large-file remote holds no content hash of a key whose content was found.
C29_NoPointerWithContent == \A k \in DOMAIN state.lfs_pointers : k \notin DOMAIN state.found \/ state.found[k].content = NoFile

\* No step turns a recorded origin of Cache into Local.
NotLowered == \A h \in DOMAIN state.pointer_origin \cap DOMAIN state'.pointer_origin : state.pointer_origin[h] = "Cache" => state'.pointer_origin[h] = "Cache"

\* C30 as stated: a hash whose origin has once been Cache during the fetch is
\* never recorded with origin Local afterwards.
C30_Original == \A h \in state.cache_origins : h \in DOMAIN state.pointer_origin => state.pointer_origin[h] = "Cache"

\* C30: while a hash stays recorded in pointer_origin its origin is never
\* lowered from Cache to Local: a pointer found in a Local tier leaves a
\* recorded Cache unchanged, one found in a Cache tier sets Cache.
C30_NotLoweredWhileRecorded == [][NotLowered]_vars

\* indexedlog_local returned for k2 a pointer to a hash that indexedlog_cache
\* had recorded as Cache, and the origin is still Cache.
C30_Witness ==
    /\ \E i \in DOMAIN probes : probes[i].tier = "indexedlog_local" /\ "k2" \in probes[i].returned
    /\ "k2" \in DOMAIN state.lfs_pointers
    /\ state.lfs_pointers["k2"] \in state.cache_origins
    /\ state.lfs_pointers["k2"] \in DOMAIN state.pointer_origin
    /\ state.pointer_origin[state.lfs_pointers["k2"]] = "Cache"

\* The byte length of the entry's blob exceeds the configured threshold.
Exceeds(e) == store.lfs_threshold_bytes # NoThreshold /\ BlobLen(e.bytes) > store.lfs_threshold_bytes

\* The route write_batch takes for an entry: the ContentStore for an
\* LFS-flagged entry, the local large-file store for a blob over the
\* threshold, the local indexed log otherwise.
Route(e) == IF e.lfs THEN "contentstore" ELSE IF Exceeds(e) THEN "lfs_local" ELSE "indexedlog_local"

\* The entry at index i cannot be written: its store is missing, it is an
\* LFS-flagged entry outside a test context, or one of the store calls made
\* for it fails.
Unwritable(i) ==
    LET e == batch.entries[i]
    IN \/ Route(e) = "contentstore" /\ (~batch.testtmp \/ "contentstore" \notin store.tiers)
       \/ Route(e) = "lfs_local" /\ ~store.lfs_local.present
       \/ Route(e) = "indexedlog_local" /\ "indexedlog_local" \notin store.tiers
       \/ batch.fail.at = i /\ batch.fail.call <= (IF Route(e) = "lfs_local" THEN 3 ELSE 1)

\* The index of the first entry that cannot be written, 0 if there is none.
FirstUnwritable ==
    IF \E i \in DOMAIN batch.entries : Unwritable(i)
    THEN CHOOSE i \in DOMAIN batch.entries : Unwritable(i) /\ \A j \in 1..(i - 1) : ~Unwritable(j)
    ELSE 0

\* The entry at index i is in the store of its route.
Written(i) ==
    LET e == batch.entries[i]
        sha == lfs_from_hg_file_blob(e.bytes).pointer.sha
    IN CASE Route(e) = "contentstore" -> e.key \in DOMAIN disk.contentstore /\ disk.contentstore[e.key] = e.bytes
         [] Route(e) = "lfs_local" -> e.key \in DOMAIN store.lfs_local.ptrs /\ store.lfs_local.ptrs[e.key] = sha /\ sha \in store.lfs_local.blobs
         [] OTHER -> e.key \in DOMAIN disk.indexedlog_local /\ disk.indexedlog_local[e.key] = e.bytes

\* No store holds anything.
NothingWritten ==
    /\ disk = EmptyDisk
    /\ store.lfs_local.ptrs = EmptyFn
    /\ store.lfs_local.blobs = {}

\* C21: write_batch returns Err iff some entry cannot be written; then the
\* entries before the first such entry are written and no store call is made
\* for an entry after it. add with a delta that has a base returns Err and
\* leaves every store as it was.
C21_FirstErrorStops ==
    pc # "write_batch" =>
        IF batch.base = "Some"
        THEN result.t = "Err" /\ NothingWritten
        ELSE LET f == FirstUnwritable
             IN /\ result.t = "Err" <=> f > 0
                /\ \A i \in DOMAIN batch.entries : (f = 0 \/ i < f) => Written(i)
                /\ \A j \in DOMAIN disk.calls : f > 0 => disk.calls[j].at <= f

\* write_batch wrote its first entry and returned Err at the second, which is
\* for another key.
C21_Witness ==
    /\ pc = "written"
    /\ batch.base = "-"
    /\ Len(batch.entries) = 2
    /\ batch.entries[1].key # batch.entries[2].key
    /\ FirstUnwritable = 2
    /\ result.t = "Err"
    /\ Written(1)
    /\ ~Written(2)

\* The entries of the batch that are not flagged LFS.
NonLfs == {i \in DOMAIN batch.entries : ~batch.entries[i].lfs}

\* The fetch returned the key of the entry at index i in complete, with the
\* entry's bytes as hg_content and the bytes without copy header as
\* file_content.
FetchedBack(i) ==
    LET e == batch.entries[i]
    IN /\ e.key \in DOMAIN fetched.complete
       /\ fetched.complete[e.key].content # NoFile
       /\ hg_content(fetched.complete[e.key].content) = e.bytes
       /\ file_content(fetched.complete[e.key].content) = strip_metadata(e.bytes)

InLfsLocal(e) ==
    LET sha == Sha256(strip_metadata(e.bytes))
    IN e.key \in DOMAIN store.lfs_local.ptrs /\ store.lfs_local.ptrs[e.key] = sha /\ sha \in store.lfs_local.blobs

\* The entry's bytes are in the local indexed log under its key.
InIndexedLogLocal(e) == e.key \in DOMAIN disk.indexedlog_local /\ disk.indexedlog_local[e.key] = e.bytes

\* write_batch has returned Ok.
WriteOk == pc # "write_batch" /\ result.t = "Ok"

CallsFor(i) == {j \in DOMAIN lookup.resolved : lookup.resolved[j].index = i}

ResOf(i) == lookup.resolved[CHOOSE j \in CallsFor(i) : TRUE].res

\* The indices of the first occurrences of the valid keys.
Firsts == {i \in DOMAIN lookup.keys : lookup.keys[i] # Invalid /\ \A j \in 1..(i - 1) : lookup.keys[j] # lookup.keys[i]}

\* resolve has been called exactly once for every index, and for nothing else.
ExactlyOnce ==
    /\ \A i \in DOMAIN lookup.keys : Cardinality(CallsFor(i)) = 1
    /\ \A j \in DOMAIN lookup.resolved : lookup.resolved[j].index \in DOMAIN lookup.keys

\* An invalid key has its own error, a later duplicate the duplicate-key
\* error.
KeyErrors ==
    \A i \in DOMAIN lookup.keys \ Firsts :
        ResOf(i) = IF lookup.keys[i] = Invalid THEN ResultErr(Err("key", Invalid)) ELSE ResultErr(Err(lookup.api, "duplicated keys are not supported"))

\* The errors of a whole-batch failure of get_tree_batch.
BatchErrors == {ResultErr(Err("treestore", "fetch_batch")), ResultErr(Err("get_tree_batch", "failed across the entire batch"))}

\* The keys of the complete entries fetch_batch returned.
TreeComplete == {lookup.fetch.complete[j].key : j \in DOMAIN lookup.fetch.complete}

\* get_tree_batch: after a whole-batch failure every first occurrence has an
\* error, one of them the store's; otherwise a complete key has its own tree
\* or the error of its conversion, an incomplete key Ok(None).
TreeResolved ==
    IF lookup.fetch.t = "Err"
    THEN /\ \A i \in Firsts : ResOf(i) \in BatchErrors
         /\ Firsts # {} => Cardinality({i \in Firsts : ResOf(i) = ResultErr(lookup.fetch.e)}) = 1
    ELSE \A i \in Firsts :
           IF lookup.keys[i] \in TreeComplete
           THEN ResOf(i) \in {OkSome(TreeOf(lookup.keys[i])), ResultErr(Err("tree", lookup.keys[i]))}
           ELSE ResOf(i) = OkNone

\* get_blob_batch: a complete key has its own file content or the error of
\* reading it, an incomplete key Ok(None) or, if it has errors, one of them.
BlobResolved ==
    \A i \in Firsts :
        LET k == lookup.keys[i]
        IN IF k \in DOMAIN fetched.complete
           THEN ResOf(i) = IF file_content_ok(fetched.complete[k].content) THEN OkSome(strip_metadata(HgBlobOf(k))) ELSE ResultErr(Err("file_content", "data"))
           ELSE /\ k \in DOMAIN fetched.incomplete
                /\ IF fetched.incomplete[k] = <<>> THEN ResOf(i) = OkNone
                   ELSE ResOf(i).t = "Err" /\ \E n \in DOMAIN fetched.incomplete[k] : ResOf(i).v = fetched.incomplete[k][n]

OriginOf(step) == IF step \in {"indexedlog_local", "lfs_local"} THEN "Local" ELSE "Cache"

\* Every key of found has an origin.
FoundHasOrigin == \A k \in DOMAIN state.found : k \in DOMAIN state.key_origin /\ state.key_origin[k] \in {"Local", "Cache"}

\* What a probe (other than the re-probe of both large-file stores after the
\* remote fetch) puts into found is tagged with the origin of its store.
TaggedByTier ==
    pc \in {"aux_cache", "aux_local", "indexedlog_cache", "indexedlog_local", "lfs_cache", "lfs_local", "memcache", "edenapi", "contentstore"} =>
        \A k \in DOMAIN state'.found : (k \notin DOMAIN state.found \/ state'.found[k] # state.found[k]) => state'.key_origin[k] = OriginOf(pc)

\* derive_computable records for every key it derives the origin of the key.
DerivedWithOrigin ==
    pc = "derive_computable" =>
        \A k \in DOMAIN state'.computed_aux_data : k \in DOMAIN state.key_origin /\ state'.computed_aux_data[k] = state.key_origin[k]

\* C31: in every reachable FetchState every key of found has an entry in
\* key_origin, Local or Cache; what memcache, EdenApi, the aux stores and the
\* legacy store find is tagged Cache; so the lookup key_origin[key] of
\* derive_computable succeeds for every key it derives.
C31_FoundHasOrigin == []FoundHasOrigin /\ [][TaggedByTier /\ DerivedWithOrigin]_vars

C31_Witness ==
    /\ pc = "write_to_cache"
    /\ \E k \in DOMAIN state.computed_aux_data : state.computed_aux_data[k] = "Cache" /\ state.found[k].content.kind = "Memcache"
    /\ \E k \in DOMAIN state.computed_aux_data : state.computed_aux_data[k] = "Local"

\* C32: in every reachable FetchState the writeback buckets found_in_edenapi
\* and found_in_memcache are disjoint: no key is credited to both.
C32_BucketsDisjoint == state.found_in_edenapi \cap state.found_in_memcache = {}

\* The buckets are disjoint as long as EdenApi returns entries only for the
\* keys it was asked for.
C32_WhenOnlyAsked == (\A i \in DOMAIN probes : probes[i].tier = "edenapi" => probes[i].returned \subseteq probes[i].keys) => C32_BucketsDisjoint

\* The attributes of a mask, as a set of names, and with_computable on it.
AttrNames(a) == {n \in {"content", "aux_data"} : a[n]}

Computable(S) == IF "content" \in S THEN S \cup {"aux_data"} ELSE S

\* (request_attrs - with_computable(attrs(found[k]))) & with_computable(fetchable)
\* is not empty.
Actionable(k, fetchable) ==
    LET available == IF k \in DOMAIN state.found THEN AttrNames(attrs(state.found[k])) ELSE {}
    IN (AttrNames(state.request_attrs) \ Computable(available)) \cap Computable(AttrNames(fetchable)) # {}

\* The attributes a tier provides and the keys its probe chooses from.
Fetchable(tier) == IF tier \in {"aux_cache", "aux_local"} THEN AUX ELSE CONTENT

Candidates(tier) == IF tier \in {"indexedlog_cache", "indexedlog_local", "memcache", "edenapi"} THEN state.pending \ DOMAIN state.lfs_pointers ELSE state.pending

HoldsContent(k) == k \in DOMAIN state.found /\ state.found[k].content # NoFile

\* pending is the stated predicate, and the first backend call of a step is
\* made for exactly the candidates for which it is true.
PendingIsActionable ==
    /\ \A k \in Keys, fetchable \in AttrSets : pending_key(state, k, fetchable) <=> Actionable(k, fetchable)
    /\ Len(probes') > Len(probes) /\ probes'[Len(probes) + 1].tier # "lfs_remote" =>
         probes'[Len(probes) + 1].keys = {k \in Candidates(probes'[Len(probes) + 1].tier) : Actionable(k, Fetchable(probes'[Len(probes) + 1].tier))}

\* A request of aux_data alone has the content tiers probed for a key with
\* nothing found; a request of content alone has no aux store probed.
AuxOnlyProbesContent ==
    /\ state.request_attrs = AUX /\ Len(probes') > Len(probes) /\ probes'[Len(probes) + 1].tier \in {"indexedlog_cache", "indexedlog_local", "memcache", "edenapi"} =>
         \A k \in state.pending : k \notin DOMAIN state.found /\ k \notin DOMAIN state.lfs_pointers => k \in probes'[Len(probes) + 1].keys
    /\ state.request_attrs = CONTENT => \A p \in NewProbes : p.tier \notin {"aux_cache", "aux_local"}

\* No content tier of tiers is probed for a key that already holds content.
NoContentProbeForHeld(tiers) == \A p \in NewProbes : p.tier \in tiers \ {"aux_cache", "aux_local"} => \A k \in p.keys : ~HoldsContent(k)

\* C33: pending(k, fetchable) is true iff k is a candidate of the probe and
\* (request_attrs - with_computable(attrs(found[k]))) & with_computable(fetchable)
\* is not empty; so the content tiers are probed for the keys of a request of
\* aux_data alone, the aux stores are never probed for a request of content
\* alone, and no further tier is probed for content for a key that already
\* holds content.
C33_PendingFilter == [][PendingIsActionable /\ AuxOnlyProbesContent /\ NoContentProbeForHeld({ProbeOrder[r] : r \in DOMAIN ProbeOrder})]_vars

\* The same, with the large-file remote left out of the last part.
C33_ExceptLfsRemote == [][PendingIsActionable /\ AuxOnlyProbesContent /\ NoContentProbeForHeld({ProbeOrder[r] : r \in DOMAIN ProbeOrder} \ {"lfs_remote"})]_vars

(***************************************************************************)
(* The staging slot of RendezVous, checked under RdvSpec.                  *)
(***************************************************************************)
\* The epochs whose shared future has been created and has not taken a slot.
Staged == {e \in Epochs : epochs[e].pc = "select"}

\* At most one slot is active: the slot holds the one epoch that has not
\* taken it yet, and an epoch whose backend call has started is not in it.
OneActiveSlot ==
    /\ Cardinality(Staged) <= 1
    /\ Staged = {staging.e} \ {0}

\* A slot is installed for a new epoch, into an empty slot.
InstalledFresh == staging'.e # staging.e /\ staging'.e # 0 => staging.e = 0 /\ epochs[staging'.e].pc = "unused" /\ epochs'[staging'.e].pc = "select" /\ epochs'[staging'.e].calls = <<>>

\* The slot is cleared by the future of its own epoch, in the step in which
\* that future calls the backend with the keys taken, and an epoch makes that
\* step once.
ClearedByOwnFuture ==
    staging.e # 0 /\ staging' # staging /\ staging'.e # staging.e =>
        /\ staging' = NoStaging
        /\ epochs[staging.e].pc = "select" /\ epochs'[staging.e].pc = "backend"
        /\ epochs[staging.e].calls = <<>> /\ epochs'[staging.e].calls = <<staging.keys>>
        /\ epochs'[staging.e].took = staging.e
        /\ stats'.inflight = stats.inflight + 1

\* While a backend call of an earlier epoch is in flight a dispatch is not
\* blocked, and a batched one installs a slot for a new epoch.
NotBlockedByBackend ==
    \A e \in Epochs, c \in Callers : epochs[e].pc = "backend" /\ NextCaller(c) =>
        /\ staging.e # e
        /\ ENABLED Dispatch(c)
        /\ staging.e = 0 => ENABLED (DispatchBatchedInstall(c, {"k1"}) /\ staging'.e \notin {0, e})

\* C34: a RendezVous has at most one active staging slot; each installed slot
\* is cleared once, by the future of its own epoch, immediately before that
\* future calls the backend; the backend call runs outside the staging mutex,
\* so a dispatch arriving while it is in flight is not blocked and installs a
\* fresh slot with a new shared future.
C34_OneSlotClearedOnce == [](OneActiveSlot /\ NotBlockedByBackend) /\ [][InstalledFresh /\ ClearedByOwnFuture]_vars

\* The backend call of epoch 1 is in flight while the second caller waits on
\* the slot it installed for epoch 2.
C34_Witness ==
    /\ epochs[1].pc = "backend" /\ epochs[1].took = 1
    /\ staging.e = 2 /\ epochs[2].pc = "select"
    /\ callers[1].e = 1 /\ callers[2].e = 2 /\ callers[2].st = "waiting"

\* The batched callers, and the keys of the backend call a caller awaits.
Batched == {c \in Callers : callers[c].e # 0}

AwaitedCall(c) == epochs[callers[c].e].calls[1]

\* C35: no key is lost, however the callers joining the slot and the epoch's
\* future taking it interleave: the key set passed to the backend call whose
\* shared result a batched caller awaits contains the caller's keys (until
\* then the slot of its epoch holds them), and there is such a call for every
\* caller whose shared future has left select!.
C35_NoLostKeys ==
    \A c \in Batched :
        /\ epochs[callers[c].e].pc = "select" => staging.e = callers[c].e /\ callers[c].keys \subseteq staging.keys
        /\ epochs[callers[c].e].pc # "select" => Len(epochs[callers[c].e].calls) = 1 /\ callers[c].keys \subseteq AwaitedCall(c)

\* Two callers with different keys joined one epoch, and its backend call was
\* made with the keys of both.
C35_Witness ==
    /\ callers[1].e = 1 /\ callers[2].e = 1
    /\ callers[1].keys = {"k1"} /\ callers[2].keys = {"k2", "k3"}
    /\ epochs[1].pc = "done" /\ epochs[1].calls = <<{"k1", "k2", "k3"}>>
    /\ callers[2].st = "done"

\* The future of epoch e can wake: it is in select! and wait_for_dispatch has
\* returned or its Notify holds a permit.
CanWake(e) == epochs[e].pc = "select" /\ (epochs[e].timer \/ epochs[e].notified)

\* C39: whenever the future of a batched epoch wakes, by wait_for_dispatch or
\* by the notifier, the staging slot is occupied and holds the key set of
\* that same epoch: take().expect(..) never panics and no future takes the
\* key set of another epoch.
C39_WakesOnOwnSlot ==
    \A e \in Epochs :
        /\ CanWake(e) => staging.e = e /\ staging.keys = EpochKeys(e)
        /\ epochs[e].pc # "panic"
        /\ Dispatched(e) => epochs[e].took = e

\* The future of epoch 1 woke with wait_for_dispatch returned and the notifier
\* fired, after two callers had staged their keys, and took its own slot.
C39_Witness ==
    /\ Dispatched(1) /\ epochs[1].timer /\ epochs[1].notified /\ epochs[1].took = 1
    /\ epochs[1].calls = <<{"k1", "k2", "k3"}>>
    /\ Cardinality(Participants(1)) = 2

\* C36: if wait_for_dispatch eventually returns and the backend call
\* eventually completes, every batched caller that keeps polling its future
\* eventually gets a result or an error (a caller that drops its future has
\* stopped polling); no caller waits for ever on a slot that is never
\* dispatched.
C36_BatchedCallersComplete == \A c \in Callers : (callers[c].st = "waiting") ~> (callers[c].st \in {"done", "dropped"})

\* A caller alone in its epoch, with fewer keys than the threshold, got its
\* result after wait_for_dispatch returned.
C36_Witness ==
    /\ callers[1].st = "done" /\ callers[1].e = 1 /\ callers[1].keys = {"k1"} /\ callers[1].out.st = "ok"
    /\ Participants(1) = {1} /\ ~epochs[1].notified /\ epochs[1].timer

(***************************************************************************)
(* FileStoreFetch::single, unrequested entries and write_to_cache, checked *)
(* under Spec.                                                             *)
(***************************************************************************)
\* No error is left in the FileStoreFetch.
NoErrors == fetched.other_errors = <<>> /\ \A k \in DOMAIN fetched.incomplete : fetched.incomplete[k] = <<>>

\* C37: single() returns Ok(Some(file)) only if other_errors and incomplete
\* are empty; with a tier-level error recorded it returns Err even if a later
\* tier completed the lone key; with no errors it returns Ok(None) iff the key
\* is incomplete; for a fetch over no key it returns Err.
C37_Single ==
    pc = "single" =>
        /\ result.t = "OkSome" => fetched.other_errors = <<>> /\ DOMAIN fetched.incomplete = {} /\ \E k \in DOMAIN fetched.complete : result.v = fetched.complete[k]
        /\ fetched.other_errors # <<>> => result = ResultErr(Last(fetched.other_errors))
        /\ NoErrors => \A k \in request.keys : request.keys = {k} => (result.t = "OkNone" <=> k \in DOMAIN fetched.incomplete)
        /\ request.keys = {} => result.t = "Err"

\* memcache failed at the level of the tier, EdenApi then completed the lone
\* key, and single() returned the error.
C37_Witness ==
    /\ pc = "single" /\ request.keys = {"k1"}
    /\ "k1" \in DOMAIN fetched.complete /\ DOMAIN fetched.incomplete = {}
    /\ fetched.other_errors = <<Err("memcache", "get_data_iter")>>
    /\ \E i \in DOMAIN probes : probes[i].tier = "edenapi" /\ "k1" \in probes[i].returned
    /\ result.t = "Err"

\* The entries of keys outside the request that the backend call of this step
\* returned, and the bucket and the kind of content of the tier.
UnrequestedNow == UNION {p.returned \ request.keys : p \in {q \in NewProbes : q.tier \in {"memcache", "edenapi"}}}

BucketOf(s, tier) == IF tier = "memcache" THEN s.found_in_memcache ELSE s.found_in_edenapi

KindOf(tier) == IF tier = "memcache" THEN "Memcache" ELSE "EdenApi"

\* An entry returned for a key outside the request is handled like any other:
\* its non-LFS content is put into found and the key into the bucket of the
\* tier, its pointer is recorded, or its error is recorded (for the key, or,
\* for an Err item of memcache, as an error of the tier).
Accepted ==
    pc \in {"memcache", "edenapi"} =>
        \A k \in UnrequestedNow :
            \/ k \in DOMAIN state'.found /\ state'.found[k].content.kind = KindOf(pc) /\ k \in BucketOf(state', pc) /\ k \notin state'.pending
            \/ k \in DOMAIN state'.lfs_pointers /\ state'.lfs_pointers[k] \in state'.cache_origins
            \/ Len(ErrorsIn(state'.keyed_log, k)) > Len(ErrorsIn(state.keyed_log, k))
            \/ pc = "memcache" /\ Len(state'.other_errors) > Len(state.other_errors)

\* What the result holds for the keys outside the request: a key with
\* anything found is in complete, a key with only errors is in incomplete
\* with its errors.
UnrequestedInResult ==
    pc \in {"done", "missing", "single"} =>
        \A k \in Keys \ request.keys :
            /\ k \in DOMAIN state.found => k \in DOMAIN fetched.complete /\ k \notin DOMAIN fetched.incomplete
            /\ k \in DOMAIN state.fetch_errors \ DOMAIN state.found => k \in DOMAIN fetched.incomplete /\ fetched.incomplete[k] = state.fetch_errors[k] /\ fetched.incomplete[k] # <<>>

\* C38: an entry memcache or EdenApi returns for a key that was not part of
\* the request is accepted: its non-LFS content is inserted into found and the
\* key into the writeback bucket, and the key is in complete of the result
\* although it is not in K, while an error for it is in incomplete.
C38_UnrequestedAccepted == []UnrequestedInResult /\ [][Accepted]_vars

\* EdenApi, asked for k1, returned content for k2 as well: k2 is in complete
\* and its content was written back.
C38_Witness ==
    /\ pc = "done" /\ request.keys = {"k1"}
    /\ "k2" \in DOMAIN fetched.complete /\ fetched.complete["k2"].content # NoFile /\ fetched.complete["k2"].content.kind = "EdenApi"
    /\ \E e \in written.indexedlog_cache : e.key = "k2"
    /\ \E e \in written.memcache : e.key = "k2"

\* C40: when write_to_cache runs, every key of found_in_edenapi, of
\* found_in_memcache and of computed_aux_data has an entry in found, and every
\* key of computed_aux_data has aux_data in it: the indexing and the unwrap of
\* write_to_cache do not fail.
C40_WriteToCacheSafe ==
    /\ state.found_in_edenapi \cup state.found_in_memcache \cup DOMAIN state.computed_aux_data \subseteq DOMAIN state.found
    /\ \A k \in DOMAIN state.computed_aux_data : state.found[k].aux_data # NoAux /\ state.found[k].aux_data = lazy_aux_data(state.found[k].content)
    /\ pc = "write_to_cache" => write_to_cache_ok(state)

\* write_to_cache is about to run with keys in all three buckets.
C40_Witness ==
    /\ pc = "write_to_cache"
    /\ state.found_in_edenapi # {} /\ state.found_in_memcache # {} /\ DOMAIN state.computed_aux_data = {"k1", "k2"}

====
